---- MODULE Spec2Model ----
(***************************************************************************)
(* Model of the asynchronous resource loader of Maat-Graphics              *)
(* (src/src/resource_manager.rs): the registry `objects`, the decode slots *)
(* `data`, the completion channel (tx, rx), the in-flight counter          *)
(* `num_recv_objects`, the worker closures dispatched by load_texture and   *)
(* the render thread that owns the ResourceManager.                         *)
(***************************************************************************)
EXTENDS Naturals, Integers, Sequences, FiniteSets, TLC

\* ------------------------------------------------------------------ bounds
MaxTasks == 2       \* decode tasks dispatched to the pool in one run
MaxObjects == 2     \* LoadableObjects created (registered or loaded) in one run

PoolSize == 10      \* ThreadPool::new(10)

Refs == {"brick", "wall"}
Locations == {"a.png", "missing.png"}
TaskIds == 1..MaxTasks

\* image::open(location) succeeds exactly for the files that exist
FileExists(location) == location # "missing.png"

\* ------------------------------------------------------------ Option<T>
None == [some |-> FALSE]
Some(x) == [some |-> TRUE, val |-> x]
is_some(o) == o.some

VARIABLES
  debug_assertions,  \* build configuration: are debug_assert! checks compiled in
  objects,           \* ResourceManager.objects : Vec<LoadableObject>
  num_recv_objects,  \* ResourceManager.num_recv_objects : i32
  rx,                \* indices sent on tx and not yet received from rx
  data,              \* ResourceManager.data : Vec<Arc<Mutex<Option<..>>>> (slot ids)
  slot,              \* the Arc<Mutex<Option<LoadableObject>>> of each task
  pool,              \* the closures handed to pool.execute, with their position
  render,            \* the render thread: position and locals of recieve_objects
  ret,               \* what the last call of get_texture returned, if it was the last call
  up,                \* the thread running a staged upload: position and locals
  queue,             \* command buffers submitted to the graphics queue, not yet executed
  device,            \* the objects of the device: images, staging buffers
  steps,             \* per upload, the steps performed so far, in order
  descriptor_sets,   \* TextureShader.descriptor_sets: reference -> image bound
  rawvk,             \* RawVk: window, swapchain, framebuffers, stale flag, frames
  shader,            \* TextureShader: framebuffers and attachments, device objects
  draws,             \* TextureShader: instanced buffers, the command buffer, frames
  maat,              \* MaatGraphics: the calls of draw, the destroy calls at shutdown
  vk                 \* the calls of the graphics API made for one image and one render pass

\* the variables of the ResourceManager and of its threads
rm_vars == <<debug_assertions, objects, num_recv_objects, rx, data, slot, pool,
             render, ret>>

\* the variables of the staged uploads and of the graphics queue
upload_vars == <<up, queue, device, steps, descriptor_sets>>

\* the variables of the graphics side
gfx_vars == <<upload_vars, rawvk, shader, draws, maat, vk>>

vars == <<rm_vars, gfx_vars>>

\* ------------------------------------------------------- LoadableObject
\* ObjectType::Texture(Option<ImageBuffer>, Option<Image>)
Texture(image_data, image) == [data |-> image_data, image |-> image]

\* `id` names the object through its life; the code has no such field
LoadableObject(id, loaded, location, reference, object_type) ==
  [id |-> id, loaded |-> loaded, location |-> location,
   reference |-> reference, object_type |-> object_type]

\* Image::device_local / device_local_with_image_data: a fresh set of handles
\* holding the pixels decoded from `src`
Image(handle, src) == [handle |-> handle, src |-> src]

\* as load_object, but the decoded pixels stay in the object
load_object_KeepsPixels(object) ==
  LET buffer_image == IF is_some(object.object_type.data)
                      THEN Some(Image(object.id, object.object_type.data.val))
                      ELSE None
  IN [object EXCEPT !.loaded = TRUE,
                    !.object_type = Texture(object.object_type.data, buffer_image)]

\* LoadableObject::load_object
load_object(object) ==
  LET buffer_image == IF is_some(object.object_type.data)
                      THEN Some(Image(object.id, object.object_type.data.val))
                      ELSE None
  IN [object EXCEPT !.loaded = TRUE,
                    !.object_type = Texture(None, buffer_image)]

\* ------------------------------------------------------ pure helpers
RemoveAt(s, i) == SubSeq(s, 1, i - 1) \o SubSeq(s, i + 1, Len(s))

\* ResourceManager::check_object: TRUE when no object carries the reference
check_object(objs, reference) ==
  \A i \in 1..Len(objs) : objs[i].reference # reference

\* as get_unloaded_object, but without the test of the loaded flag
get_unloaded_object_AnyObject(objs, reference) ==
  LET hits == {i \in 1..Len(objs) : objs[i].reference = reference}
  IN IF hits = {} THEN 0 ELSE CHOOSE i \in hits : \A j \in hits : i <= j

\* ResourceManager::get_unloaded_object: index of the object it removes, 0 if none
get_unloaded_object(objs, reference) ==
  LET hits == {i \in 1..Len(objs) :
                 objs[i].reference = reference /\ ~objs[i].loaded}
  IN IF hits = {} THEN 0 ELSE CHOOSE i \in hits : \A j \in hits : i <= j

\* ResourceManager::get_texture: the image of the last object with the reference
get_texture(objs, reference) ==
  LET hits == {i \in 1..Len(objs) : objs[i].reference = reference}
  IN IF hits = {} THEN None
     ELSE objs[CHOOSE i \in hits : \A j \in hits : j <= i].object_type.image

\* as pending_objects_loaded, but one remaining slot is not looked at
pending_objects_loaded_IgnoresLast == Len(data) <= 1

\* ResourceManager::pending_objects_loaded
pending_objects_loaded == Len(data) = 0

\* ------------------------------------------------------ staged uploads
MaxUploads == 2     \* staged uploads (images, vertex and index buffers) in one run
UploadIds == 1..MaxUploads

\* vkenums::ImageLayout, the layouts the sources name
Layouts == {"Undefined", "TransferDstOptimal", "ShaderReadOnlyOptimal",
            "ColourAttachmentOptimal"}

\* the image a direct call of transition_layout is applied to
ScratchImage == 0

\* a command buffer: not begun, or begun with the commands recorded so far
NoCmd == [begun |-> FALSE, ops |-> <<>>]
UpIdle == [pc |-> "idle", n |-> 0, kind |-> "", location |-> "",
           old_layout |-> "", new_layout |-> "", after |-> "", cmd |-> NoCmd]

\* a vk::Image that does not exist yet, a buffer that does not exist yet
NoImage == [state |-> "none", layout |-> "Undefined", written |-> FALSE,
            view |-> FALSE]
NoBuffer == [state |-> "none", destroyed |-> 0, written |-> FALSE]

\* one step of an upload, as it is logged
Step(op, cmd, a, b) == [op |-> op, cmd |-> cmd, a |-> a, b |-> b]

\* one command recorded into a command buffer
Command(op, a, b) == [op |-> op, a |-> a, b |-> b]

UploadInit ==
  /\ up = UpIdle
  /\ queue = <<>>
  /\ device = [image |-> [n \in {ScratchImage} \cup UploadIds |-> NoImage],
               staging |-> [n \in UploadIds |-> NoBuffer],
               buffer |-> [n \in UploadIds |-> NoBuffer],
               fault |-> FALSE]
  /\ steps = [n \in {ScratchImage} \cup UploadIds |-> <<>>]
  /\ descriptor_sets = [r \in Refs |-> 0]


\* ------------------------------------------------- RawVk (rawvk.rs)
\* submitted draws are counted up to MaxFrames
MaxFrames == 2
\* window sizes: 0 stands for a zero-sized window, 1 for the size of the
\* settings (800 x 600), larger numbers for other sizes
MaxExtent == 2
Extents == 0 .. MaxExtent
InitialExtent == 1
\* the number of images of a swapchain
MaxImages == 3
ImageCounts == 2 .. MaxImages

\* the dimensions that swapchain creation accepts
SupportedDimensions(dimensions) == dimensions # 0

\* what the last call of pre_draw did
NoPreDraw == "none"

\* a piece of work submitted to the queue: a frame (the n-th), or the upload
\* of a texture, of the index buffer of a model or of the 2D index buffer
Work(kind, n, reference) == [kind |-> kind, n |-> n, reference |-> reference]
\* a GpuFuture, by the work whose completion it stands for
now == {}
join(first, second) == first \cup second

\* the reference that preload_model loads a model and its texture under
ModelRefs == {"brick"}

RawVkInit ==
  rawvk = [window_dimensions |-> InitialExtent,
           swapchain |-> InitialExtent,
           images |-> 2,
           framebuffers |-> None,
           depth_buffer |-> None,
           projection_2d |-> None,
           projection_3d |-> None,
           recreate_swapchain |-> FALSE,
           previous_frame_end |-> Some(now),
           submitted |-> {},
           frame_after |-> {},
           frames |-> 0,
           crashed |-> FALSE,
           pre_draw_result |-> NoPreDraw,
           last_call |-> "new",
           marked_by |-> "none",
           texture_paths |-> [r \in Refs |-> None],
           model_paths |-> [r \in ModelRefs |-> None],
           ready |-> FALSE]

\* ----------------------------------- TextureShader (texture_shader.rs)
\* calls of TextureShader::recreate are counted up to MaxRecreates
MaxRecreates == 2
\* the number of image views of the swapchain
MaxViews == 2
ViewCounts == 1 .. MaxViews
\* msaa: SampleCount
SampleCounts == {"OneBit", "FourBit"}

ShaderInit ==
  shader = [alive |-> "none",
            msaa |-> "OneBit",
            framebuffers |-> <<>>,
            framebuffer_colour_images |-> <<>>,
            framebuffer_msaa_images |-> <<>>,
            objects |-> <<>>,
            ops |-> 0,
            image_views |-> 0,
            extent |-> 0]

\* ------------------------ TextureShader: draws (texture_shader.rs)
\* frames are counted up to MaxDrawFrames
MaxDrawFrames == 3
\* instances added to a buffer by add_instanced_draw are counted up to MaxInstances
MaxInstances == 2
\* image_views: the number of slots of a per-frame buffer, one per
\* swapchain image, which is also the number of frames in flight
FramesInFlight == 2
Slots == 0 .. FramesInFlight - 1
\* the references of instanced buffers
InstanceRefs == {"sprites"}
\* the references textures are drawn with: "" is known from TextureShader::new
TextureRefs == Refs \cup {""}

\* a slot nothing was written to: the frame that wrote the slot last and how
\* often that frame wrote it
EmptySlot == [frame |-> 0, write |-> 0]

DrawsInit ==
  draws = [instanced_descriptor_sets |-> [r \in Refs |-> 0],
           instanced_cpu_buffers |-> [b \in InstanceRefs |-> None],
           cmd |-> <<>>,
           recording |-> FALSE,
           frame |-> 0,
           current_buffer |-> 0,
           in_flight |-> {},
           added |-> 0,
           crashed |-> FALSE]

\* ------------------------------------------ MaatGraphics (lib.rs)
\* texture_data and model_data hold up to MaxData entries
MaxData == 2
\* model_data: Vec<(Vec<f32>, S)>, by the model reference
ModelData == UNION {[1 .. n -> ModelRefs] : n \in 0 .. MaxData}
\* texture_data: Vec<(Vec<f32>, T, Option<L>)>, by the texture reference and the text
TextureItems == [texture : ModelRefs, some_text : {None, Some("text")}]
TextureData == UNION {[1 .. n -> TextureItems] : n \in 0 .. MaxData}
\* what start_render returns: None, or the index of the acquired image
PresentIndices == {None} \cup {Some(i) : i \in Slots}
NoItem == [texture |-> "", some_text |-> None]
NoArgs == [present |-> None, texture_data |-> <<>>, model_data |-> <<>>]

\* ------------------------------ Camera (shader_handlers/camera.rs)
\* the x rotation, in whole degrees, is followed from -MaxRotation to MaxRotation
MaxRotation == 300
TP_X_ROT_MIN == 89
TP_X_ROT_MAX == 189
FP_X_ROT_MIN == 91
FP_X_ROT_MAX == 269

\* Camera::new: a fly camera looking down at 121 degrees, no limits
CameraInit ==
  [camera_type |-> "Fly",
   rotation |-> [x |-> 121],
   invert_y_rotation |-> 1,
   min_x_rotation |-> None,
   max_x_rotation |-> None]

MaatInit ==
  maat = [last_call |-> "new", \* the method of MaatGraphics called last
          calls |-> <<>>,      \* the calls that method made
          args |-> NoArgs,     \* what draw was given and what start_render returned
          pending |-> FALSE,   \* work submitted to the device has not finished
          destroyed |-> <<>>,  \* the destroy calls made at shutdown so far, in order
          recreated |-> <<>>,  \* the destroy calls made by the last TextureShader::recreate
          gone |-> {},         \* the owners that have destroyed their objects
          device_keys |-> <<>>, \* the keys held, as MaatGraphics::run lists them
          camera |-> CameraInit, \* the camera that vulkan.mut_camera() hands to callbacks
          crashed |-> FALSE]

\* ------------------------------------- Image, RenderPass (vulkan/)
\* memory_properties.memoryTypeCount is at most MaxTypes
MaxTypes == 2
TypeIndices == 0 .. MaxTypes - 1
\* vk::MEMORY_PROPERTY_DEVICE_LOCAL_BIT
MEMORY_PROPERTY_DEVICE_LOCAL_BIT == 1
\* propertyFlags of a memory type: DEVICE_LOCAL and one more property bit
PropertyFlags == 0 .. 3
\* vk::Result of a call
VkResults == {"SUCCESS", "ERROR"}
NoRequirements == [memoryTypeBits |-> 0]
NoProperties == [memoryTypeCount |-> 0, memoryTypes |-> [i \in TypeIndices |-> 0]]

VkInit ==
  vk = [pc |-> "none",              \* how far the creation of the image has come
        calls |-> <<>>,             \* the calls of the API made so far, with their results
        memory_requirements |-> NoRequirements,
        memory_properties |-> NoProperties,
        submits |-> 0,              \* single-time command buffers submitted for the image
        render_pass |-> "none",
        panicked |-> FALSE]

\* ------------------------------------------------------------- Init
FreeSlot == [locked_by |-> "nobody", val |-> None, poisoned |-> FALSE]
NoTask == [pc |-> "none", reference |-> "", location |-> "", index |-> 0, id |-> 0]
RenderIdle == [pc |-> "idle", num |-> 0, left |-> 0, i |-> 0, references |-> <<>>,
               len0 |-> 0, attempts |-> 0]
NoCall == [reference |-> "", val |-> None]

Init ==
  /\ debug_assertions \in BOOLEAN
  /\ objects = <<>>
  /\ num_recv_objects = 0
  /\ rx = <<>>
  /\ data = <<>>
  /\ slot = [t \in TaskIds |-> FreeSlot]
  /\ pool = [t \in TaskIds |-> NoTask]
  /\ render = RenderIdle
  /\ ret = NoCall
  /\ UploadInit
  /\ RawVkInit
  /\ ShaderInit
  /\ DrawsInit
  /\ MaatInit
  /\ VkInit

Dispatched == {t \in TaskIds : pool[t].pc # "none"}
Idle == render.pc = "idle"
Crashed == render.pc = "crashed"
Panic ==
  /\ render' = [render EXCEPT !.pc = "crashed"]
  /\ ret' = NoCall

\* the identity of the next LoadableObject: one more than those created so far
Ids == {objects[i].id : i \in 1..Len(objects)} \cup {pool[t].id : t \in Dispatched}
next_id == (CHOOSE n \in Ids \cup {0} : \A k \in Ids : k <= n) + 1

\* ---------------------------------------------------------------------
\* The render thread (owner of the ResourceManager)
\* ---------------------------------------------------------------------

\* ResourceManager::insert_unloaded_texture
insert_unloaded_texture(reference, location) ==
  /\ Idle
  /\ next_id <= MaxObjects
  /\ IF debug_assertions /\ ~check_object(objects, reference)
     THEN /\ Panic
          /\ UNCHANGED objects
     ELSE /\ objects' = Append(objects,
                 LoadableObject(next_id, FALSE, location, reference,
                                Texture(None, None)))
          /\ ret' = NoCall
          /\ UNCHANGED render
  /\ UNCHANGED <<gfx_vars, debug_assertions, num_recv_objects, rx, data, slot, pool>>

\* ResourceManager::sync_load_texture (with load_texture_into_memory)
sync_load_texture(reference, location) ==
  /\ Idle
  /\ next_id <= MaxObjects
  /\ IF (debug_assertions /\ ~check_object(objects, reference))
        \/ ~FileExists(location)
     THEN /\ Panic
          /\ UNCHANGED objects
     ELSE /\ objects' = Append(objects,
                 LoadableObject(next_id, TRUE, location, reference,
                                Texture(None, Some(Image(next_id, location)))))
          /\ ret' = NoCall
          /\ UNCHANGED render
  /\ UNCHANGED <<gfx_vars, debug_assertions, num_recv_objects, rx, data, slot, pool>>

\* as load_texture, but the task is dispatched without being counted
load_texture_NoCount(objs, reference, location, id) ==
  IF debug_assertions /\ ~check_object(objs, reference)
  THEN /\ Panic
       /\ objects' = objs
       /\ UNCHANGED <<num_recv_objects, data, pool>>
  ELSE LET t == Cardinality(Dispatched) + 1
           index == Len(data)
       IN /\ t <= MaxTasks
          /\ UNCHANGED num_recv_objects
          /\ data' = Append(data, t)
          /\ pool' = [pool EXCEPT ![t] =
                        [pc |-> "queued", reference |-> reference,
                         location |-> location, index |-> index, id |-> id]]
          /\ objects' = objs
          /\ ret' = NoCall
          /\ UNCHANGED render

\* ResourceManager::load_texture, called on the registry `objs` for the
\* object `id`
load_texture(objs, reference, location, id) ==
  IF debug_assertions /\ ~check_object(objs, reference)
  THEN /\ Panic
       /\ objects' = objs
       /\ UNCHANGED <<num_recv_objects, data, pool>>
  ELSE LET t == Cardinality(Dispatched) + 1
           index == Len(data)
       IN /\ t <= MaxTasks
          /\ num_recv_objects' = num_recv_objects + 1
          /\ data' = Append(data, t)
          /\ pool' = [pool EXCEPT ![t] =
                        [pc |-> "queued", reference |-> reference,
                         location |-> location, index |-> index, id |-> id]]
          /\ objects' = objs
          /\ ret' = NoCall
          /\ UNCHANGED render

\* a direct call of the public load_texture
LoadTexture(reference, location) ==
  /\ Idle
  /\ next_id <= MaxObjects
  /\ load_texture(objects, reference, location, next_id)
  /\ UNCHANGED <<gfx_vars, debug_assertions, rx, slot>>

\* ResourceManager::load_texture_from_reference
load_texture_from_reference(reference) ==
  /\ Idle
  /\ LET i == get_unloaded_object(objects, reference)
     IN IF i # 0
        THEN load_texture(RemoveAt(objects, i), objects[i].reference,
                          objects[i].location, objects[i].id)
        ELSE /\ ret' = NoCall
             /\ UNCHANGED <<objects, num_recv_objects, data, pool, render>>
  /\ UNCHANGED <<gfx_vars, debug_assertions, rx, slot>>

\* ResourceManager::get_texture
GetTexture(reference) ==
  /\ Idle
  /\ ret' = [reference |-> reference, val |-> get_texture(objects, reference)]
  /\ UNCHANGED <<gfx_vars, debug_assertions, objects, num_recv_objects, rx, data, slot,
                 pool, render>>

\* as RecvBegin, but the slot vector is cleared while one task is in flight
RecvBegin_ClearEarly ==
  /\ Idle
  /\ IF num_recv_objects <= 1
     THEN /\ data' = <<>>
          /\ UNCHANGED render
     ELSE /\ render' = [pc |-> "recv", num |-> num_recv_objects,
                        left |-> num_recv_objects, i |-> 0,
                        references |-> <<>>, len0 |-> Len(objects),
                        attempts |-> 0]
          /\ UNCHANGED data
  /\ ret' = NoCall
  /\ UNCHANGED <<gfx_vars, debug_assertions, objects, num_recv_objects, rx, slot, pool>>

\* as RecvBegin, but the slot vector is never emptied
RecvBegin_NeverClears ==
  /\ Idle
  /\ IF num_recv_objects <= 0
     THEN UNCHANGED <<data, render>>
     ELSE /\ render' = [pc |-> "recv", num |-> num_recv_objects,
                        left |-> num_recv_objects, i |-> 0,
                        references |-> <<>>, len0 |-> Len(objects),
                        attempts |-> 0]
          /\ UNCHANGED data
  /\ ret' = NoCall
  /\ UNCHANGED <<gfx_vars, debug_assertions, objects, num_recv_objects, rx, slot, pool>>

\* ResourceManager::recieve_objects, up to the start of the loop
RecvBegin ==
  /\ Idle
  /\ IF num_recv_objects <= 0
     THEN /\ data' = <<>>
          /\ UNCHANGED render
     ELSE /\ render' = [pc |-> "recv", num |-> num_recv_objects,
                        left |-> num_recv_objects, i |-> 0,
                        references |-> <<>>, len0 |-> Len(objects),
                        attempts |-> 0]
          /\ UNCHANGED data
  /\ ret' = NoCall
  /\ UNCHANGED <<gfx_vars, debug_assertions, objects, num_recv_objects, rx, slot, pool>>

\* as RecvTry, but a receive that finds nothing is counted as a completion
RecvTry_CountsErr ==
  /\ render.pc = "recv"
  /\ render.left > 0
  /\ IF rx = <<>>
     THEN /\ render' = [render EXCEPT !.left = @ - 1, !.attempts = @ + 1]
          /\ num_recv_objects' = num_recv_objects - 1
          /\ UNCHANGED rx
     ELSE /\ rx' = Tail(rx)
          /\ UNCHANGED num_recv_objects
          /\ IF Head(rx) >= Len(data)
             THEN render' = [render EXCEPT !.pc = "crashed", !.attempts = @ + 1]
             ELSE render' = [render EXCEPT !.pc = "lock", !.i = Head(rx),
                                           !.attempts = @ + 1]
  /\ UNCHANGED <<gfx_vars, debug_assertions, objects, data, slot, pool, ret>>

\* one iteration of the loop: self.rx.try_recv() and the index into self.data
RecvTry ==
  /\ render.pc = "recv"
  /\ render.left > 0
  /\ IF rx = <<>>
     THEN /\ render' = [render EXCEPT !.left = @ - 1, !.attempts = @ + 1]
          /\ UNCHANGED rx
     ELSE /\ rx' = Tail(rx)
          /\ IF Head(rx) >= Len(data)
             THEN render' = [render EXCEPT !.pc = "crashed", !.attempts = @ + 1]
             ELSE render' = [render EXCEPT !.pc = "lock", !.i = Head(rx),
                                           !.attempts = @ + 1]
  /\ UNCHANGED <<gfx_vars, debug_assertions, objects, num_recv_objects, data, slot, pool, ret>>

\* the Ok(i) arm: lock the slot, take the payload, promote it, push it
RecvLock ==
  /\ render.pc = "lock"
  /\ LET s == data[render.i + 1]
     IN /\ slot[s].locked_by = "nobody"
        /\ IF slot[s].poisoned \/ ~is_some(slot[s].val)
           THEN /\ render' = [render EXCEPT !.pc = "crashed"]
                /\ UNCHANGED <<objects, num_recv_objects, slot>>
           ELSE LET object == load_object(slot[s].val.val)
                IN /\ slot' = [slot EXCEPT ![s].val = None]
                   /\ objects' = Append(objects, object)
                   /\ num_recv_objects' = num_recv_objects - 1
                   /\ render' = [render EXCEPT
                                   !.pc = "recv", !.left = @ - 1, !.i = 0,
                                   !.references = Append(@, object.reference)]
  /\ UNCHANGED <<gfx_vars, debug_assertions, rx, data, pool, ret>>

\* the loop is over: return references
RecvReturn ==
  /\ render.pc = "recv"
  /\ render.left = 0
  /\ render' = RenderIdle
  /\ UNCHANGED <<gfx_vars, debug_assertions, objects, num_recv_objects, rx, data, slot,
                 pool, ret>>

recieve_objects == RecvBegin \/ RecvTry \/ RecvLock \/ RecvReturn

\* the loop of _remove_object from index i (counted from 0) on: `len` is the
\* length the loop bounds were computed with; <<objs, panicked>> at the end
RECURSIVE remove_loop(_, _, _, _)
remove_loop(objs, reference, i, len) ==
  IF i >= len THEN <<objs, FALSE>>
  ELSE IF i >= Len(objs) THEN <<objs, TRUE>>
  ELSE IF objs[i + 1].reference = reference
       THEN remove_loop(RemoveAt(objs, i + 1), reference, i + 1, len)
       ELSE remove_loop(objs, reference, i + 1, len)

\* ResourceManager::_remove_object
_remove_object(reference) ==
  /\ Idle
  /\ LET r == remove_loop(objects, reference, 0, Len(objects))
     IN /\ objects' = r[1]
        /\ IF r[2] THEN Panic ELSE ret' = NoCall /\ UNCHANGED render
  /\ UNCHANGED <<gfx_vars, debug_assertions, num_recv_objects, rx, data, slot, pool>>

\* ---------------------------------------------------------------------
\* The closure load_texture hands to pool.execute, run by a pool worker
\* ---------------------------------------------------------------------
Running == {t \in TaskIds : pool[t].pc \in {"locked", "written", "sent"}}

\* ThreadPool::execute: a queued closure starts when a pool thread is free
PoolHasFreeWorker == Cardinality(Running) < PoolSize

\* let mut data = data.lock().unwrap();
WorkerLock(t) ==
  /\ ~Crashed
  /\ pool[t].pc = "queued"
  /\ PoolHasFreeWorker
  /\ slot[t].locked_by = "nobody"
  /\ slot' = [slot EXCEPT ![t].locked_by = "worker"]
  /\ pool' = [pool EXCEPT ![t].pc = "locked"]
  /\ UNCHANGED <<gfx_vars, debug_assertions, objects, num_recv_objects, rx, data, render, ret>>

\* image::open(..).expect(..).to_rgba(); ... *data = Some(object);
WorkerDecode(t) ==
  /\ ~Crashed
  /\ pool[t].pc = "locked"
  /\ IF FileExists(pool[t].location)
     THEN /\ slot' = [slot EXCEPT ![t].val =
                        Some(LoadableObject(pool[t].id, TRUE, pool[t].location,
                                            pool[t].reference,
                                            Texture(Some(pool[t].location), None)))]
          /\ pool' = [pool EXCEPT ![t].pc = "written"]
     ELSE /\ slot' = [slot EXCEPT ![t].locked_by = "nobody",
                                  ![t].poisoned = TRUE]
          /\ pool' = [pool EXCEPT ![t].pc = "panicked"]
  /\ UNCHANGED <<gfx_vars, debug_assertions, objects, num_recv_objects, rx, data, render, ret>>

\* tx.send(index.clone()).unwrap();
WorkerSend(t) ==
  /\ ~Crashed
  /\ pool[t].pc = "written"
  /\ rx' = Append(rx, pool[t].index)
  /\ pool' = [pool EXCEPT ![t].pc = "sent"]
  /\ UNCHANGED <<gfx_vars, debug_assertions, objects, num_recv_objects, data, slot, render, ret>>

\* end of the closure: the MutexGuard is dropped
WorkerUnlock(t) ==
  /\ ~Crashed
  /\ pool[t].pc = "sent"
  /\ slot' = [slot EXCEPT ![t].locked_by = "nobody"]
  /\ pool' = [pool EXCEPT ![t].pc = "done"]
  /\ UNCHANGED <<gfx_vars, debug_assertions, objects, num_recv_objects, rx, data, render, ret>>

Worker(t) == WorkerLock(t) \/ WorkerDecode(t) \/ WorkerSend(t) \/ WorkerUnlock(t)

\* ---------------------------------------------------------------------
Next ==
  \/ \E r \in Refs, l \in Locations : insert_unloaded_texture(r, l)
  \/ \E r \in Refs, l \in Locations : sync_load_texture(r, l)
  \/ \E r \in Refs, l \in Locations : LoadTexture(r, l)
  \/ \E r \in Refs : load_texture_from_reference(r)
  \/ \E r \in Refs : GetTexture(r)
  \/ RecvBegin
  \/ RecvTry
  \/ RecvLock
  \/ RecvReturn
  \/ \E t \in TaskIds : WorkerLock(t)
  \/ \E t \in TaskIds : WorkerDecode(t)
  \/ \E t \in TaskIds : WorkerSend(t)
  \/ \E t \in TaskIds : WorkerUnlock(t)

Spec == Init /\ [][Next]_vars

\* the same program when the caller also removes objects
NextWithRemove ==
  \/ \E r \in Refs, l \in Locations : insert_unloaded_texture(r, l)
  \/ \E r \in Refs, l \in Locations : sync_load_texture(r, l)
  \/ \E r \in Refs, l \in Locations : LoadTexture(r, l)
  \/ \E r \in Refs : load_texture_from_reference(r)
  \/ \E r \in Refs : GetTexture(r)
  \/ \E r \in Refs : _remove_object(r)
  \/ RecvBegin
  \/ RecvTry
  \/ RecvLock
  \/ RecvReturn
  \/ \E t \in TaskIds : WorkerLock(t)
  \/ \E t \in TaskIds : WorkerDecode(t)
  \/ \E t \in TaskIds : WorkerSend(t)
  \/ \E t \in TaskIds : WorkerUnlock(t)

SpecWithRemove == Init /\ [][NextWithRemove]_vars

TypeOK ==
  /\ debug_assertions \in BOOLEAN
  /\ num_recv_objects \in Int
  /\ render.pc \in {"idle", "recv", "lock", "crashed"}
  /\ \A t \in TaskIds : pool[t].pc \in {"none", "queued", "locked", "written",
                                         "sent", "done", "panicked"}

\* ---------------------------------------------------------------------
\* Derived notions used by the properties
\* ---------------------------------------------------------------------
Indices(objs, reference) == {i \in 1..Len(objs) : objs[i].reference = reference}

\* how often the object decoded by task t has been pushed to the registry
Pushes(t) == Cardinality({i \in 1..Len(objects) : objects[i].id = pool[t].id})
Promoted(t) == Pushes(t) >= 1

\* the decode of task t has completed: the payload was written to its slot
Completed(t) == pool[t].pc \in {"written", "sent", "done"}

\* the slot of task t is where self.data holds it
Addressable(t) == pool[t].index < Len(data) /\ data[pool[t].index + 1] = t

\* the index of task t has been sent and is still to be handled
IndexPending(t) ==
  /\ Addressable(t)
  /\ \/ \E k \in 1..Len(rx) : rx[k] = pool[t].index
     \/ render.pc = "lock" /\ render.i = pool[t].index

\* the payload of task t waits in its slot, reachable through self.data
InSlot(t) ==
  /\ is_some(slot[t].val)
  /\ slot[t].val.val.id = pool[t].id
  /\ Addressable(t)

\* C1: every decode that completed is promoted exactly once: its object is
\* never pushed twice, and until it is pushed its payload stays in its slot,
\* reachable through the slot vector, with its index notification still to be
\* received once it was sent (nothing is lost, also not by the clear of the
\* slot vector)
C1_PromotedExactlyOnce ==
  \A t \in Dispatched :
    /\ Pushes(t) <= 1
    /\ Completed(t) =>
         IF Promoted(t)
         THEN ~is_some(slot[t].val) /\ ~IndexPending(t)
         ELSE InSlot(t) /\ (pool[t].pc \in {"sent", "done"} => IndexPending(t))
    /\ ~Completed(t) => ~Promoted(t) /\ ~IndexPending(t)

\* two decodes promoted through the same slot index, on either side of a
\* clear of the slot vector
C1_Witness ==
  \E t, u \in Dispatched :
    /\ t # u
    /\ Pushes(t) = 1 /\ Pushes(u) = 1
    /\ pool[t].index = 0 /\ pool[u].index = 0

\* ---------------------------------------------------------------------
\* the registry as the caller can observe it: while recieve_objects runs, no
\* other call can be made, and the registry is seen as it was at its start
Observable ==
  IF render.pc \in {"recv", "lock"} THEN SubSeq(objects, 1, render.len0) ELSE objects

\* the objects of the registry `objs` that recieve_objects has pushed, and so
\* reported, under the reference
ReportedAt(objs, reference) ==
  {i \in Indices(objs, reference) :
     objs[i].loaded /\ \E t \in TaskIds : pool[t].pc # "none" /\ pool[t].id = objs[i].id}
Reported(objs, reference) == ReportedAt(objs, reference) # {}

\* the reference was registered with insert_unloaded_texture and its object
\* waits in the registry
InsertedPending(objs, reference) ==
  \E i \in Indices(objs, reference) : ~objs[i].loaded

C2_NoneUntilReported ==
  \A r \in Refs :
    (InsertedPending(Observable, r) /\ ~Reported(Observable, r))
       => get_texture(Observable, r) = None

C2_StableOnceReported ==
  \A r \in Refs :
    (Reported(Observable, r) /\ ~Crashed') =>
       /\ is_some(get_texture(Observable, r))
       /\ get_texture(Observable', r) = get_texture(Observable, r)

C2_GetIsReadOnly ==
  \A r \in Refs :
    GetTexture(r) => UNCHANGED <<objects, num_recv_objects, rx, data, slot, pool>>

\* C2: a reference registered with insert_unloaded_texture and not yet
\* reported reads as None; once a recieve_objects call has reported it,
\* get_texture returns Some with the same image ever after; get_texture
\* changes nothing.
\* Stated for builds in which the debug_assert! checks are compiled in.
C2_Claim ==
  /\ [](debug_assertions => C2_NoneUntilReported)
  /\ [][debug_assertions => C2_StableOnceReported]_vars
  /\ [][C2_GetIsReadOnly]_vars

\* ---------------------------------------------------------------------
\* the tasks whose object is being decoded or waits decoded in its slot
InFlight == {t \in Dispatched : ~Promoted(t)}

\* how many objects the ResourceManager manages under the reference
Managed(reference) ==
  Cardinality(Indices(objects, reference))
    + Cardinality({t \in InFlight : pool[t].reference = reference})

\* C3: no two managed objects (registered, being decoded, decoded in a slot
\* or resident) carry the same reference.
\* Stated for builds in which the debug_assert! checks are compiled in.
C3_Claim == debug_assertions => \A r \in Refs : Managed(r) <= 1

\* ---------------------------------------------------------------------
\* a registration call for the reference
Registration(reference) ==
  \E l \in Locations : \/ insert_unloaded_texture(reference, l)
                       \/ sync_load_texture(reference, l)
                       \/ LoadTexture(reference, l)

\* C4: a registration call for a reference that is already registered is
\* rejected before any work reaches the pool: no slot, no increment of the
\* in-flight counter, no task, registry unchanged.
\* Stated for builds in which the debug_assert! checks are compiled in.
C4_Claim ==
  [][debug_assertions =>
       \A r \in Refs :
         (Managed(r) >= 1 /\ Registration(r)) =>
            UNCHANGED <<objects, num_recv_objects, rx, data, slot, pool>>]_vars

\* ---------------------------------------------------------------------
\* where the object `id` is in its life, in the state (objs, pl):
\* 0 absent, 1 Registered, 2 Decoding, 3 Decoded, 4 Resident
StageOf(objs, pl, id) ==
  IF \E i \in 1..Len(objs) : objs[i].id = id /\ objs[i].loaded THEN 4
  ELSE IF \E i \in 1..Len(objs) : objs[i].id = id THEN 1
  ELSE IF \E t \in TaskIds : pl[t].id = id /\ pl[t].pc \in {"written", "sent", "done"}
       THEN 3
  ELSE IF \E t \in TaskIds : pl[t].id = id /\ pl[t].pc # "none" THEN 2
  ELSE 0

\* every object stays where it is or moves one state forward; it enters as
\* Registered (insert_unloaded_texture), as Decoding (load_texture) or as
\* Resident (sync_load_texture)
Forward ==
  \A id \in 1..MaxObjects :
    LET before == StageOf(objects, pool, id)
        after == StageOf(objects', pool', id)
    IN IF before = 0 THEN after \in {0, 1, 2, 4}
       ELSE after = before \/ after = before + 1

\* C5 as claimed: while the owner thread runs, no operation of the
\* ResourceManager moves an object back, lets it skip a state, or makes a
\* resident object pending or absent again
C5_Claim == [][~Crashed' => Forward]_vars

\* C5 as amended: the same, for every operation but _remove_object
C5_ForwardOnly ==
  [][(~Crashed' /\ ~(\E r \in Refs : _remove_object(r))) => Forward]_vars

\* an object that went through the pool has become resident
C5_Witness ==
  \E i \in 1..Len(objects), t \in Dispatched :
    pool[t].id = objects[i].id /\ objects[i].loaded

\* ---------------------------------------------------------------------
\* the render thread stands before self.data[i].lock() and the mutex is held
MustWait ==
  /\ render.pc = "lock"
  /\ slot[data[render.i + 1]].locked_by # "nobody"

\* C6: recieve_objects never waits, neither on the channel nor on a slot mutex
C6_Claim == ~MustWait

\* ---------------------------------------------------------------------
\* a caller that registers textures, loads them from their reference and
\* polls: workers are scheduled, and the render thread keeps calling
\* recieve_objects
NextPolling ==
  \/ \E r \in Refs, l \in Locations : insert_unloaded_texture(r, l)
  \/ \E r \in Refs : load_texture_from_reference(r)
  \/ RecvBegin
  \/ RecvTry
  \/ RecvLock
  \/ RecvReturn
  \/ \E t \in TaskIds : WorkerLock(t)
  \/ \E t \in TaskIds : WorkerDecode(t)
  \/ \E t \in TaskIds : WorkerSend(t)
  \/ \E t \in TaskIds : WorkerUnlock(t)

LiveSpec ==
  /\ Init
  /\ [][NextPolling]_vars
  /\ WF_vars(recieve_objects)
  /\ \A t \in TaskIds : WF_vars(Worker(t))

\* a dispatched decode of an existing file is promoted, unless the owner
\* thread panics first
EventuallyReported ==
  \A t \in TaskIds :
    (pool[t].pc # "none" /\ FileExists(pool[t].location))
       ~> (Promoted(t) \/ Crashed)

\* what has been reported reads as a resident image
ReportedIsResident ==
  \A r \in Refs :
    Reported(Observable, r) => is_some(get_texture(Observable, r))

\* C7 as claimed: a dispatched decode of a valid path is eventually reported,
\* and from then on get_texture returns a resident image
C7_Claim == EventuallyReported /\ []ReportedIsResident

\* the part of C7 that holds: it is eventually reported; from then on
\* get_texture returns a resident image in builds in which the debug_assert!
\* checks are compiled in
C7_Liveness == EventuallyReported /\ [](debug_assertions => ReportedIsResident)

\* a reported reference reads as resident after the call that reported it
C7_Witness ==
  /\ debug_assertions
  /\ Idle
  /\ \E r \in Refs : Reported(objects, r) /\ is_some(get_texture(objects, r))

\* ---------------------------------------------------------------------
\* what a caller can observe of a resident object
Observation(o) ==
  [reference |-> o.reference, location |-> o.location, loaded |-> o.loaded,
   pixels |-> o.object_type.data,
   image |-> IF is_some(o.object_type.image)
             THEN Some(o.object_type.image.val.src) ELSE None]

\* the resident state of a texture `reference` loaded from `location`
ResidentState(reference, location) ==
  [reference |-> reference, location |-> location, loaded |-> TRUE,
   pixels |-> None, image |-> Some(location)]

\* the reference was given to exactly one object, which is resident
LoadedOnce(reference) ==
  /\ Cardinality({id \in Ids :
        \/ \E i \in Indices(objects, reference) : objects[i].id = id
        \/ \E t \in Dispatched : pool[t].reference = reference /\ pool[t].id = id}) = 1
  /\ \E i \in Indices(objects, reference) : objects[i].loaded

\* C8: a texture loaded by sync_load_texture and one loaded through the pool
\* and recieve_objects end in the same resident state: loaded, no pixels
\* kept on the CPU side, an image of the file; and when the reference was
\* loaded once, one registry entry, which get_texture returns
C8_SameResidentState ==
  /\ \A i \in 1..Len(objects) :
       objects[i].loaded =>
         Observation(objects[i])
           = ResidentState(objects[i].reference, objects[i].location)
  /\ \A r \in Refs :
       LoadedOnce(r) =>
         /\ Cardinality(Indices(objects, r)) = 1
         /\ \E i \in Indices(objects, r) :
              get_texture(objects, r) = objects[i].object_type.image
         /\ is_some(get_texture(objects, r))

\* the same file resident under one reference through sync_load_texture and
\* under another through the pool
C8_Witness ==
  \E i, j \in 1..Len(objects) :
    /\ objects[i].loaded /\ objects[j].loaded
    /\ objects[i].location = objects[j].location
    /\ objects[i].reference # objects[j].reference
    /\ LoadedOnce(objects[i].reference) /\ LoadedOnce(objects[j].reference)
    /\ \E t \in Dispatched : pool[t].id = objects[i].id
    /\ \A t \in Dispatched : pool[t].id # objects[j].id

\* ---------------------------------------------------------------------
\* the reference is not in the registry, or an object with it is resident
UnknownOrResident(reference) ==
  \/ Indices(objects, reference) = {}
  \/ \E i \in Indices(objects, reference) : objects[i].loaded

\* C9: load_texture_from_reference of an unknown or already resident
\* reference is a no-op: registry, slots and counter unchanged, nothing
\* dispatched, no error.
\* Stated for builds in which the debug_assert! checks are compiled in.
C9_Claim ==
  [][debug_assertions =>
       \A r \in Refs :
         (UnknownOrResident(r) /\ load_texture_from_reference(r)) =>
            /\ UNCHANGED <<objects, num_recv_objects, rx, data, slot, pool>>
            /\ ~Crashed']_vars

\* ---------------------------------------------------------------------
\* the references of the objects pushed since recieve_objects was entered
PushedInCall ==
  [k \in 1..(Len(objects) - render.len0) |-> objects[render.len0 + k].reference]

\* C10: a call of recieve_objects makes at most as many receive attempts as
\* tasks were in flight when it was entered; what it returns are the
\* references it promoted; when nothing was ready it returns an empty list
\* and leaves registry and counter as they were
C10_BoundedDrain ==
  render.pc \in {"recv", "lock"} =>
    /\ render.attempts <= render.num
    /\ render.references = PushedInCall
    /\ num_recv_objects = render.num - Len(render.references)
    /\ render.references = <<>> =>
         Len(objects) = render.len0 /\ num_recv_objects = render.num

\* a call entered with two tasks in flight is about to return the one that
\* was ready
C10_Witness ==
  /\ render.pc = "recv"
  /\ render.left = 0
  /\ render.num = 2
  /\ render.attempts = 2
  /\ Len(render.references) = 1

\* ---------------------------------------------------------------------
\* no object whose file does not exist is resident
NeverResident ==
  \A i \in 1..Len(objects) : objects[i].loaded => FileExists(objects[i].location)

\* the owner of the ResourceManager has learnt that the load is over: its
\* thread received the panic, or the manager no longer reports loads as
\* pending
Surfaced == Crashed \/ pending_objects_loaded

\* C11: a load of a file that does not exist never makes the reference
\* resident, and its failure is surfaced: the load does not stay pending
C11_Claim ==
  /\ []NeverResident
  /\ \A t \in TaskIds :
       (pool[t].pc # "none" /\ ~FileExists(pool[t].location)) ~> Surfaced

\* ---------------------------------------------------------------------
\* Staged uploads: Image::device_local, TextureShader::create_vertex_buffer
\* and create_index_buffer, and the graphics queue they submit to
\* ---------------------------------------------------------------------
UpCrashed == up.pc = "crashed"

\* the number of the next upload: one more than those started so far
NextUpload == Cardinality({n \in UploadIds : steps[n] # <<>>}) + 1

Log(n, step) == steps' = [steps EXCEPT ![n] = Append(@, step)]

\* Image::device_local: image::open(&location).expect(..), lines 22-24
DL_Open(location) ==
  /\ up.pc = "idle"
  /\ NextUpload <= MaxUploads
  /\ IF FileExists(location)
     THEN /\ up' = [up EXCEPT !.pc = "dl_cpu_buffer", !.n = NextUpload,
                              !.kind = "image", !.location = location]
          /\ Log(NextUpload, Step("open", "", location, ""))
     ELSE /\ up' = [up EXCEPT !.pc = "crashed"]
          /\ UNCHANGED steps
  /\ UNCHANGED <<rm_vars, rawvk, shader, draws, maat, vk, queue, device, descriptor_sets>>

\* let staging_buffer = Buffer::cpu_buffer(..), line 37
DL_CpuBuffer ==
  /\ up.pc = "dl_cpu_buffer"
  /\ device' = [device EXCEPT !.staging[up.n].state = "alive"]
  /\ Log(up.n, Step("cpu_buffer", "", "", ""))
  /\ up' = [up EXCEPT !.pc = "dl_create_image"]
  /\ UNCHANGED <<rm_vars, rawvk, shader, draws, maat, vk, queue, descriptor_sets>>

\* Image::create_image(.., ImageLayout::Undefined, ..), line 39
DL_CreateImage ==
  /\ up.pc = "dl_create_image"
  /\ device' = [device EXCEPT !.image[up.n] =
                  [NoImage EXCEPT !.state = "alive", !.layout = "Undefined"]]
  /\ Log(up.n, Step("create_image", "", "Undefined", ""))
  /\ up' = [up EXCEPT !.pc = "dl_transition_1"]
  /\ UNCHANGED <<rm_vars, rawvk, shader, draws, maat, vk, queue, descriptor_sets>>

\* Image::transition_layout(.., Undefined, TransferDstOptimal, ..), line 41
DL_Transition1 ==
  /\ up.pc = "dl_transition_1"
  /\ up' = [up EXCEPT !.pc = "tl", !.old_layout = "Undefined",
                      !.new_layout = "TransferDstOptimal",
                      !.after = "dl_copy_begin"]
  /\ UNCHANGED <<rm_vars, rawvk, shader, draws, maat, vk, queue, device, steps, descriptor_sets>>

\* let mut command_buffer = Image::begin_single_time_command(..), line 43
DL_CopyBegin ==
  /\ up.pc = "dl_copy_begin"
  /\ up' = [up EXCEPT !.pc = "dl_copy_record", !.cmd = [begun |-> TRUE, ops |-> <<>>]]
  /\ Log(up.n, Step("begin", "", "", ""))
  /\ UNCHANGED <<rm_vars, rawvk, shader, draws, maat, vk, queue, device, descriptor_sets>>

\* command_buffer.copy_buffer_to_image(..); Image::end_single_time_command(..),
\* lines 44-45
DL_CopyRecord ==
  /\ up.pc = "dl_copy_record"
  /\ up' = [up EXCEPT !.pc = "estc", !.after = "dl_transition_2",
                      !.cmd.ops = Append(@, Command("copy_buffer_to_image", "", ""))]
  /\ Log(up.n, Step("record", "copy_buffer_to_image", "", ""))
  /\ UNCHANGED <<rm_vars, rawvk, shader, draws, maat, vk, queue, device, descriptor_sets>>

\* as DL_Transition2, but the image is handed on without the second barrier
DL_Transition2_Skipped ==
  /\ up.pc = "dl_transition_2"
  /\ up' = [up EXCEPT !.pc = "dl_destroy_staging"]
  /\ UNCHANGED <<rm_vars, rawvk, shader, draws, maat, vk, queue, device, steps, descriptor_sets>>

\* Image::transition_layout(.., TransferDstOptimal, ShaderReadOnlyOptimal, ..),
\* line 48
DL_Transition2 ==
  /\ up.pc = "dl_transition_2"
  /\ up' = [up EXCEPT !.pc = "tl", !.old_layout = "TransferDstOptimal",
                      !.new_layout = "ShaderReadOnlyOptimal",
                      !.after = "dl_destroy_staging"]
  /\ UNCHANGED <<rm_vars, rawvk, shader, draws, maat, vk, queue, device, steps, descriptor_sets>>

\* staging_buffer.destroy(device), line 51
DL_DestroyStaging ==
  /\ up.pc = "dl_destroy_staging"
  /\ device' = [device EXCEPT !.staging[up.n].state = "destroyed",
                              !.staging[up.n].destroyed = @ + 1]
  /\ Log(up.n, Step("destroy_staging", "", "", ""))
  /\ up' = [up EXCEPT !.pc = "dl_create_image_view"]
  /\ UNCHANGED <<rm_vars, rawvk, shader, draws, maat, vk, queue, descriptor_sets>>

\* Image::create_image_view(..) and the Image returned, lines 53-59
DL_Return ==
  /\ up.pc = "dl_create_image_view"
  /\ device' = [device EXCEPT !.image[up.n].view = TRUE]
  /\ Log(up.n, Step("return", "", "", ""))
  /\ up' = UpIdle
  /\ UNCHANGED <<rm_vars, rawvk, shader, draws, maat, vk, queue, descriptor_sets>>

\* Image::transition_layout, lines 117-135: the stages and access masks of
\* the barrier for the pair of layouts, or the panic of the else branch
transition_masks(old_layout, new_layout) ==
  IF old_layout = "Undefined" /\ new_layout = "TransferDstOptimal"
  THEN [panic |-> FALSE, src_access |-> "0", dst_access |-> "TransferWrite",
        src_stage |-> "TopOfPipe", dst_stage |-> "Transfer"]
  ELSE IF old_layout = "TransferDstOptimal" /\ new_layout = "ShaderReadOnlyOptimal"
  THEN [panic |-> FALSE, src_access |-> "TransferWrite", dst_access |-> "ShaderRead",
        src_stage |-> "Transfer", dst_stage |-> "FragmentShader"]
  ELSE [panic |-> TRUE, src_access |-> "0", dst_access |-> "0",
        src_stage |-> "", dst_stage |-> ""]

\* as TL_Check, but every pair of layouts is let through
TL_Check_NoPanic ==
  /\ up.pc = "tl"
  /\ up' = [up EXCEPT !.pc = "tl_begin"]
  /\ UNCHANGED <<rm_vars, rawvk, shader, draws, maat, vk, queue, device, steps, descriptor_sets>>

\* Image::transition_layout up to the barrier struct, lines 107-148
TL_Check ==
  /\ up.pc = "tl"
  /\ IF transition_masks(up.old_layout, up.new_layout).panic
     THEN up' = [up EXCEPT !.pc = "crashed"]
     ELSE up' = [up EXCEPT !.pc = "tl_begin"]
  /\ UNCHANGED <<rm_vars, rawvk, shader, draws, maat, vk, queue, device, steps, descriptor_sets>>

\* let mut command_buffer = Image::begin_single_time_command(..), line 150
TL_Begin ==
  /\ up.pc = "tl_begin"
  /\ up' = [up EXCEPT !.pc = "tl_record", !.cmd = [begun |-> TRUE, ops |-> <<>>]]
  /\ Log(up.n, Step("begin", "", "", ""))
  /\ UNCHANGED <<rm_vars, rawvk, shader, draws, maat, vk, queue, device, descriptor_sets>>

\* command_buffer.pipeline_barrier(..); Image::end_single_time_command(..),
\* lines 151-152
TL_Record ==
  /\ up.pc = "tl_record"
  /\ up' = [up EXCEPT !.pc = "estc",
                      !.cmd.ops = Append(@, Command("barrier", up.old_layout,
                                                    up.new_layout))]
  /\ Log(up.n, Step("record", "barrier", up.old_layout, up.new_layout))
  /\ UNCHANGED <<rm_vars, rawvk, shader, draws, maat, vk, queue, device, descriptor_sets>>

\* Image::end_single_time_command: end_command_buffer and vk.QueueSubmit,
\* lines 81-101
ESTC_Submit ==
  /\ up.pc = "estc"
  /\ queue' = Append(queue, [n |-> up.n, ops |-> up.cmd.ops])
  /\ Log(up.n, Step("submit", up.cmd.ops[1].op, up.cmd.ops[1].a, up.cmd.ops[1].b))
  /\ up' = [up EXCEPT !.pc = "estc_wait"]
  /\ UNCHANGED <<rm_vars, rawvk, shader, draws, maat, vk, device, descriptor_sets>>

\* as ESTC_WaitIdle, but it does not wait for the queue
ESTC_WaitIdle_NoWait ==
  /\ up.pc = "estc_wait"
  /\ up' = [up EXCEPT !.pc = "estc_free"]
  /\ UNCHANGED <<rm_vars, rawvk, shader, draws, maat, vk, queue, device, steps, descriptor_sets>>

\* vk.QueueWaitIdle(*graphics_queue), line 102
ESTC_WaitIdle ==
  /\ up.pc = "estc_wait"
  /\ queue = <<>>
  /\ up' = [up EXCEPT !.pc = "estc_free"]
  /\ UNCHANGED <<rm_vars, rawvk, shader, draws, maat, vk, queue, device, steps, descriptor_sets>>

\* vk.FreeCommandBuffers(..) and the return to the caller, line 103
ESTC_Free ==
  /\ up.pc = "estc_free"
  /\ Log(up.n, Step("free", "", "", ""))
  /\ up' = IF up.after = "idle" THEN UpIdle
           ELSE [up EXCEPT !.pc = up.after, !.after = "", !.cmd = NoCmd,
                           !.old_layout = "", !.new_layout = ""]
  /\ UNCHANGED <<rm_vars, rawvk, shader, draws, maat, vk, queue, device, descriptor_sets>>

\* the effect of one command on the objects of the device
Execute(dev, n, c) ==
  IF c.op = "barrier" THEN [dev EXCEPT !.image[n].layout = c.b]
  ELSE IF c.op = "copy_buffer_to_image"
  THEN [dev EXCEPT !.image[n].written = TRUE,
                   !.fault = @ \/ dev.staging[n].state # "alive"
                               \/ dev.image[n].layout # "TransferDstOptimal"]
  ELSE [dev EXCEPT !.buffer[n].written = TRUE,
                   !.fault = @ \/ dev.staging[n].state # "alive"]

\* the graphics queue executes the command buffer at its head
GpuExecute ==
  /\ queue # <<>>
  /\ LET c == Head(queue)
     IN /\ device' = Execute(device, c.n, c.ops[1])
        /\ Log(c.n, Step("complete", c.ops[1].op, c.ops[1].a, c.ops[1].b))
  /\ queue' = Tail(queue)
  /\ UNCHANGED <<rm_vars, rawvk, shader, draws, maat, vk, up, descriptor_sets>>

\* a call of Image::transition_layout for any pair of layouts, on an image
\* of its own
TransitionLayout(old_layout, new_layout) ==
  /\ up.pc = "idle"
  /\ queue = <<>>
  /\ up' = [up EXCEPT !.pc = "tl", !.n = ScratchImage, !.kind = "transition",
                      !.old_layout = old_layout, !.new_layout = new_layout,
                      !.after = "idle"]
  /\ steps' = [steps EXCEPT ![ScratchImage] = <<Step("call", "", old_layout, new_layout)>>]
  /\ device' = [device EXCEPT !.image[ScratchImage] =
                  [NoImage EXCEPT !.state = "alive", !.layout = old_layout]]
  /\ UNCHANGED <<rm_vars, rawvk, shader, draws, maat, vk, queue, descriptor_sets>>

\* TextureShader::create_vertex_buffer / create_index_buffer: the staging
\* buffer, lines 477 and 454
CB_CpuBuffer(kind) ==
  /\ up.pc = "idle"
  /\ NextUpload <= MaxUploads
  /\ up' = [up EXCEPT !.pc = "cb_device_local_buffer", !.n = NextUpload,
                      !.kind = kind]
  /\ device' = [device EXCEPT !.staging[NextUpload].state = "alive"]
  /\ Log(NextUpload, Step("cpu_buffer", "", kind, ""))
  /\ UNCHANGED <<rm_vars, rawvk, shader, draws, maat, vk, queue, descriptor_sets>>

\* Buffer::device_local_buffer(..), lines 478 and 455
CB_DeviceLocalBuffer ==
  /\ up.pc = "cb_device_local_buffer"
  /\ device' = [device EXCEPT !.buffer[up.n].state = "alive"]
  /\ Log(up.n, Step("device_local_buffer", "", "", ""))
  /\ up' = [up EXCEPT !.pc = "cb_begin"]
  /\ UNCHANGED <<rm_vars, rawvk, shader, draws, maat, vk, queue, descriptor_sets>>

\* CoreMaat::begin_single_time_command(..), lines 480 and 457
CB_Begin ==
  /\ up.pc = "cb_begin"
  /\ up' = [up EXCEPT !.pc = "cb_copy", !.cmd = [begun |-> TRUE, ops |-> <<>>]]
  /\ Log(up.n, Step("begin", "", "", ""))
  /\ UNCHANGED <<rm_vars, rawvk, shader, draws, maat, vk, queue, device, descriptor_sets>>

\* command_buffer.copy_buffer(.., &staging_buffer, &buffer, 0), lines 481 and 458
CB_Copy ==
  /\ up.pc = "cb_copy"
  /\ up' = [up EXCEPT !.pc = "cb_end",
                      !.cmd.ops = Append(@, Command("copy_buffer", "", ""))]
  /\ Log(up.n, Step("record", "copy_buffer", "", ""))
  /\ UNCHANGED <<rm_vars, rawvk, shader, draws, maat, vk, queue, device, descriptor_sets>>

\* CoreMaat::end_single_time_command(..), lines 482 and 459: the command
\* buffer is ended and submitted
CB_End ==
  /\ up.pc = "cb_end"
  /\ queue' = Append(queue, [n |-> up.n, ops |-> up.cmd.ops])
  /\ Log(up.n, Step("submit", "copy_buffer", "", ""))
  /\ up' = [up EXCEPT !.pc = "cb_wait"]
  /\ UNCHANGED <<rm_vars, rawvk, shader, draws, maat, vk, device, descriptor_sets>>

\* CoreMaat::end_single_time_command(..): the call returns when the queue
\* is idle, and the command buffer is freed
CB_WaitIdle ==
  /\ up.pc = "cb_wait"
  /\ queue = <<>>
  /\ up' = [up EXCEPT !.pc = "cb_destroy_staging", !.cmd = NoCmd]
  /\ Log(up.n, Step("free", "", "", ""))
  /\ UNCHANGED <<rm_vars, rawvk, shader, draws, maat, vk, queue, device, descriptor_sets>>

\* as CB_DestroyStaging, but the staging buffer is kept for a second destroy
CB_DestroyStaging_Twice ==
  /\ up.pc = "cb_destroy_staging"
  /\ device' = [device EXCEPT !.staging[up.n].state = "destroyed",
                              !.staging[up.n].destroyed = @ + 1]
  /\ Log(up.n, Step("destroy_staging", "", "", ""))
  /\ up' = IF device.staging[up.n].destroyed = 0 THEN up ELSE UpIdle
  /\ UNCHANGED <<rm_vars, rawvk, shader, draws, maat, vk, queue, descriptor_sets>>

\* staging_buffer.destroy(..) and the buffer returned, lines 484-486 and
\* 461-463
CB_DestroyStaging ==
  /\ up.pc = "cb_destroy_staging"
  /\ device' = [device EXCEPT !.staging[up.n].state = "destroyed",
                              !.staging[up.n].destroyed = @ + 1]
  /\ Log(up.n, Step("destroy_staging", "", "", ""))
  /\ up' = UpIdle
  /\ UNCHANGED <<rm_vars, rawvk, shader, draws, maat, vk, queue, descriptor_sets>>

\* TextureShader::add_texture: a descriptor set for the reference is built and
\* updated with the image, as ShaderReadOnlyOptimal, unless the reference has
\* one; the images a caller holds are those Image::device_local returned
Returned == {n \in UploadIds : steps[n] # <<>> /\ steps[n][Len(steps[n])].op = "return"}

add_texture(texture_reference, texture_image) ==
  /\ up.pc = "idle"
  /\ texture_image \in Returned
  /\ descriptor_sets' = IF descriptor_sets[texture_reference] = 0
                        THEN [descriptor_sets EXCEPT ![texture_reference] = texture_image]
                        ELSE descriptor_sets
  /\ draws' = [draws EXCEPT !.instanced_descriptor_sets[texture_reference] =
                                IF @ = 0 THEN texture_image ELSE @]
  /\ UNCHANGED <<rm_vars, rawvk, shader, maat, vk, up, queue, device, steps>>

UploadNext ==
  \/ \E l \in Locations : DL_Open(l)
  \/ DL_CpuBuffer
  \/ DL_CreateImage
  \/ DL_Transition1
  \/ DL_CopyBegin
  \/ DL_CopyRecord
  \/ DL_Transition2
  \/ DL_DestroyStaging
  \/ DL_Return
  \/ TL_Check
  \/ TL_Begin
  \/ TL_Record
  \/ ESTC_Submit
  \/ ESTC_WaitIdle
  \/ ESTC_Free
  \/ GpuExecute
  \/ \E old_layout, new_layout \in Layouts : TransitionLayout(old_layout, new_layout)
  \/ \E kind \in {"vertex", "index"} : CB_CpuBuffer(kind)
  \/ CB_DeviceLocalBuffer
  \/ CB_Begin
  \/ CB_Copy
  \/ CB_End
  \/ CB_WaitIdle
  \/ CB_DestroyStaging
  \/ \E r \in Refs, n \in UploadIds : add_texture(r, n)

UploadSpec == Init /\ [][UploadNext]_vars

UploadTypeOK ==
  /\ up.pc \in {"idle", "crashed", "dl_cpu_buffer", "dl_create_image",
                "dl_transition_1", "dl_copy_begin", "dl_copy_record",
                "dl_transition_2", "dl_destroy_staging", "dl_create_image_view",
                "tl", "tl_begin", "tl_record", "estc", "estc_wait", "estc_free",
                "cb_device_local_buffer", "cb_begin", "cb_copy", "cb_end",
                "cb_wait", "cb_destroy_staging"}
  /\ Len(queue) <= 1

\* ---------------------------------------------------------------------
IsPrefix(s, t) == Len(s) <= Len(t) /\ s = SubSeq(t, 1, Len(s))

\* one command buffer from begin to free: recorded, submitted, executed
\* before the wait for the queue returns
Submission(cmd, a, b) ==
  <<Step("begin", "", "", ""), Step("record", cmd, a, b), Step("submit", cmd, a, b),
    Step("complete", cmd, a, b), Step("free", "", "", "")>>

\* the steps of Image::device_local in the order of lines 22-59
DeviceLocalOrder(location) ==
  <<Step("open", "", location, ""), Step("cpu_buffer", "", "", ""),
    Step("create_image", "", "Undefined", "")>>
  \o Submission("barrier", "Undefined", "TransferDstOptimal")
  \o Submission("copy_buffer_to_image", "", "")
  \o Submission("barrier", "TransferDstOptimal", "ShaderReadOnlyOptimal")
  \o <<Step("destroy_staging", "", "", ""), Step("return", "", "", "")>>

\* the uploads that are calls of Image::device_local
ImageUploads == {n \in UploadIds : steps[n] # <<>> /\ steps[n][1].op = "open"}

\* C12: what Image::device_local has done so far is always a beginning of:
\* create the image as Undefined, barrier Undefined->TransferDst, copy from
\* the staging buffer, barrier TransferDst->ShaderReadOnly, destroy the
\* staging buffer - each command buffer executed before the next step
\* starts; nothing skipped, repeated or out of order
C12_DeviceLocalOrder ==
  \A n \in ImageUploads : IsPrefix(steps[n], DeviceLocalOrder(steps[n][1].a))

\* a call of Image::device_local has returned
C12_Witness ==
  \E n \in ImageUploads : steps[n] = DeviceLocalOrder("a.png")

\* ---------------------------------------------------------------------
\* the two transitions that are supported
SupportedEdges == {<<"Undefined", "TransferDstOptimal">>,
                   <<"TransferDstOptimal", "ShaderReadOnlyOptimal">>}

\* C13: a call transition_layout(old, new) begins, records and submits a
\* barrier exactly when <<old, new>> is one of the two supported pairs; for
\* any other pair it panics with no command buffer begun, recorded or
\* submitted
C13_OnlyTwoEdges ==
  steps[ScratchImage] # <<>> =>
    LET call == steps[ScratchImage][1]
    IN IF <<call.a, call.b>> \in SupportedEdges
       THEN /\ IsPrefix(steps[ScratchImage],
                        <<call>> \o Submission("barrier", call.a, call.b))
            /\ up.kind = "transition" => ~UpCrashed
       ELSE /\ steps[ScratchImage] = <<call>>
            /\ up.kind = "transition"
            /\ up.pc \in {"tl", "crashed"}
            /\ ~up.cmd.begun
            /\ queue = <<>>

\* a call for a supported pair has returned with its barrier executed
C13_Witness ==
  /\ up.pc = "idle"
  /\ steps[ScratchImage] =
       <<Step("call", "", "TransferDstOptimal", "ShaderReadOnlyOptimal")>>
       \o Submission("barrier", "TransferDstOptimal", "ShaderReadOnlyOptimal")
  /\ device.image[ScratchImage].layout = "ShaderReadOnlyOptimal"

\* ---------------------------------------------------------------------
\* the step occurs in the log of upload n
Done(n, step) == \E k \in 1..Len(steps[n]) : steps[n][k] = step

\* the image can be drawn with: Image::device_local has returned it, or a
\* descriptor set holds it
Visible(n) == n \in Returned \/ \E r \in Refs : descriptor_sets[r] = n

Finished(n) == steps[n] # <<>> /\ up.n # n

CopyCommands == {"copy_buffer_to_image", "copy_buffer"}

\* C15: in every staged upload (image, vertex buffer, index buffer) the
\* staging buffer is destroyed only after the copy that reads it was
\* recorded and submitted, and it is destroyed exactly once
C15_StagingOutlivesCopy ==
  \A n \in UploadIds :
    /\ device.staging[n].destroyed <= 1
    /\ Finished(n) => device.staging[n].destroyed = 1
    /\ \A k \in 1..Len(steps[n]) :
         steps[n][k].op = "destroy_staging" =>
           \E i, j \in 1..(k - 1) :
             /\ i < j
             /\ steps[n][i].op = "record" /\ steps[n][i].cmd \in CopyCommands
             /\ steps[n][j].op = "submit" /\ steps[n][j].cmd = steps[n][i].cmd

\* an image upload and a buffer upload have both finished
C15_Witness ==
  \E n, m \in UploadIds :
    /\ Finished(n) /\ steps[n][1].op = "open"
    /\ Finished(m) /\ steps[m][1].op = "cpu_buffer"
    /\ device.buffer[m].written /\ device.image[n].written


\* ================================================= RawVk (rawvk.rs)
\* a panic on the render thread ends the program
RawVkPanic == rawvk' = [rawvk EXCEPT !.crashed = TRUE]

\* RawVk::create_depth_buffer: an attachment of the size of the window
create_depth_buffer(dimensions) == Some(dimensions)

\* RawVk::create_2d_projection / create_3d_projection, by the size they were made for
create_2d_projection(dimensions) == Some(dimensions)
create_3d_projection(dimensions) == Some(dimensions)

\* RawVk::load_shaders: projections and depth buffer for the current window
load_shaders ==
  /\ ~rawvk.crashed
  /\ LET dimensions == rawvk.window_dimensions
     IN IF ~SupportedDimensions(dimensions)
        THEN RawVkPanic   \* AttachmentImage::transient(..).unwrap()
        ELSE rawvk' = [rawvk EXCEPT
                         !.projection_2d = create_2d_projection(dimensions),
                         !.projection_3d = create_3d_projection(dimensions),
                         !.depth_buffer = create_depth_buffer(dimensions),
                         !.submitted = @ \cup {Work("index_2d", 0, "")},
                         !.previous_frame_end =
                           Some(join({Work("index_2d", 0, "")},
                                     rawvk.previous_frame_end.val)),
                         !.last_call = "load_shaders"]
  /\ UNCHANGED <<rm_vars, upload_vars, shader, draws, maat, vk, vk>>

\* RawVk::init
init ==
  /\ ~rawvk.crashed
  /\ rawvk' = [rawvk EXCEPT !.framebuffers = None, !.recreate_swapchain = FALSE,
                            !.last_call = "init"]
  /\ UNCHANGED <<rm_vars, upload_vars, shader, draws, maat, vk, vk>>

\* the user resizes the window: window.get_dimensions() answers differently
WindowResized(dimensions) ==
  /\ ~rawvk.crashed
  /\ dimensions # rawvk.window_dimensions
  /\ rawvk' = [rawvk EXCEPT !.window_dimensions = dimensions]
  /\ UNCHANGED <<rm_vars, upload_vars, shader, draws, maat, vk, vk>>

\* RawVk::screen_resized
screen_resized ==
  /\ ~rawvk.crashed
  /\ rawvk' = [rawvk EXCEPT !.recreate_swapchain = TRUE,
                            !.last_call = "screen_resized",
                            !.marked_by = "screen_resized"]
  /\ UNCHANGED <<rm_vars, upload_vars, shader, draws, maat, vk, vk>>

\* window.recreate_swapchain(dimensions): the results it can give
window_recreate_swapchain(dimensions) ==
  IF SupportedDimensions(dimensions)
  THEN {"Ok", "SurfaceLost"}
  ELSE {"UnsupportedDimensions"}

\* the framebuffers built from window.get_images() and the depth buffer
new_framebuffers(r) ==
  Some([count |-> r.images, extent |-> r.swapchain, depth |-> r.depth_buffer.val])

\* RawVk::pre_draw; result is what window.recreate_swapchain returns and
\* new_images the number of images of the swapchain it creates
pre_draw(result, new_images) ==
  /\ ~rawvk.crashed
  /\ result \in window_recreate_swapchain(rawvk.window_dimensions)
  /\ LET dimensions == rawvk.window_dimensions
         recreated == [rawvk EXCEPT
                         !.swapchain = dimensions,
                         !.images = new_images,
                         !.framebuffers = None,
                         !.recreate_swapchain = FALSE,
                         !.depth_buffer = create_depth_buffer(dimensions),
                         !.projection_2d = create_2d_projection(dimensions),
                         !.projection_3d = create_3d_projection(dimensions),
                         !.pre_draw_result = "recreated",
                         !.last_call = "pre_draw"]
         r == IF rawvk.recreate_swapchain
              THEN recreated
              ELSE [rawvk EXCEPT !.pre_draw_result = "kept", !.last_call = "pre_draw"]
     IN IF rawvk.recreate_swapchain /\ result = "UnsupportedDimensions"
        THEN rawvk' = [rawvk EXCEPT !.pre_draw_result = "unsupported",
                                    !.last_call = "pre_draw"]
        ELSE IF rawvk.recreate_swapchain /\ result # "Ok"
        THEN RawVkPanic
        ELSE IF ~is_some(r.framebuffers)
        THEN IF ~is_some(r.depth_buffer)
             THEN RawVkPanic   \* depth_buffer.clone().unwrap()
             ELSE rawvk' = [r EXCEPT !.framebuffers = new_framebuffers(r)]
        ELSE rawvk' = r
  /\ UNCHANGED <<rm_vars, upload_vars, shader, draws, maat, vk, vk>>

\* swapchain::acquire_next_image: the results it can give
acquire_next_image ==
  {"Ok", "SurfaceLost"}
    \cup (IF rawvk.swapchain # rawvk.window_dimensions THEN {"OutOfDate"} ELSE {})

\* RawVk::draw, with a stale flag that is not set by an out-of-date acquire
draw_OutOfDateIgnored(acquired, image_num) ==
  /\ ~rawvk.crashed
  /\ rawvk.frames < MaxFrames
  /\ acquired \in acquire_next_image
  /\ image_num \in 0 .. rawvk.images - 1
  /\ IF acquired = "OutOfDate"
     THEN rawvk' = [rawvk EXCEPT !.last_call = "draw"]
     ELSE IF acquired # "Ok"
     THEN RawVkPanic
     ELSE IF ~is_some(rawvk.framebuffers)
     THEN RawVkPanic
     ELSE IF image_num >= rawvk.framebuffers.val.count
     THEN RawVkPanic
     ELSE IF ~is_some(rawvk.previous_frame_end)
     THEN RawVkPanic
     ELSE rawvk' = [rawvk EXCEPT
                      !.frames = @ + 1,
                      !.last_call = "draw",
                      !.submitted = @ \cup {Work("frame", rawvk.frames + 1, "")},
                      !.frame_after = rawvk.previous_frame_end.val,
                      !.previous_frame_end =
                        Some(join(rawvk.previous_frame_end.val,
                                  {Work("frame", rawvk.frames + 1, "")}))]
  /\ UNCHANGED <<rm_vars, upload_vars, shader, draws, maat, vk, vk>>

\* RawVk::draw; acquired is what acquire_next_image returns and image_num the
\* index of the image it hands out
draw(acquired, image_num) ==
  /\ ~rawvk.crashed
  /\ rawvk.frames < MaxFrames
  /\ acquired \in acquire_next_image
  /\ image_num \in 0 .. rawvk.images - 1
  /\ IF acquired = "OutOfDate"
     THEN rawvk' = [rawvk EXCEPT !.recreate_swapchain = TRUE, !.last_call = "draw",
                                 !.marked_by = "OutOfDate"]
     ELSE IF acquired # "Ok"
     THEN RawVkPanic
     ELSE IF ~is_some(rawvk.framebuffers)
     THEN RawVkPanic   \* self.framebuffers.as_ref().unwrap()
     ELSE IF image_num >= rawvk.framebuffers.val.count
     THEN RawVkPanic   \* index out of bounds
     ELSE IF ~is_some(rawvk.previous_frame_end)
     THEN RawVkPanic   \* self.previous_frame_end.take().unwrap()
     ELSE rawvk' = [rawvk EXCEPT
                      !.frames = @ + 1,
                      !.last_call = "draw",
                      !.submitted = @ \cup {Work("frame", rawvk.frames + 1, "")},
                      !.frame_after = rawvk.previous_frame_end.val,
                      !.previous_frame_end =
                        Some(join(rawvk.previous_frame_end.val,
                                  {Work("frame", rawvk.frames + 1, "")}))]
  /\ UNCHANGED <<rm_vars, upload_vars, shader, draws, maat, vk, vk>>

RawVkNext ==
  \/ load_shaders
  \/ init
  \/ \E dimensions \in Extents : WindowResized(dimensions)
  \/ screen_resized
  \/ \E result \in {"Ok", "UnsupportedDimensions", "SurfaceLost"}, new_images \in ImageCounts :
       pre_draw(result, new_images)
  \/ \E acquired \in {"Ok", "OutOfDate", "SurfaceLost"}, image_num \in 0 .. MaxImages - 1 :
       draw(acquired, image_num)

RawVkSpec == Init /\ [][RawVkNext]_vars

\* a step of draw that recorded and submitted a command buffer
DrawSubmitted == rawvk'.frames = rawvk.frames + 1

\* a step of draw in which the acquire reported OutOfDate
OutOfDateStep == \E image_num \in 0 .. MaxImages - 1 : draw("OutOfDate", image_num)

\* a step of pre_draw
PreDrawStep == \E result \in {"Ok", "UnsupportedDimensions", "SurfaceLost"},
                  new_images \in ImageCounts : pre_draw(result, new_images)

\* framebuffers, depth buffer and projections all made for the given extent
RebuiltFor(r, extent) ==
  /\ is_some(r.framebuffers)
  /\ r.framebuffers.val.extent = extent
  /\ r.framebuffers.val.depth = extent
  /\ r.framebuffers.val.count = r.images
  /\ r.depth_buffer = Some(extent)
  /\ r.projection_2d = Some(extent)
  /\ r.projection_3d = Some(extent)
  /\ r.swapchain = extent

\* C16: between an event that marks the swapchain stale (screen_resized or an
\* out-of-date acquire) and the next successful recreation no draw commands
\* are recorded or submitted: every draw that is submitted, even one that
\* directly follows a call of pre_draw, runs with the stale flag clear.
C16_Claim ==
  [][DrawSubmitted /\ rawvk.last_call = "pre_draw" => ~rawvk.recreate_swapchain]_vars


\* a step of pre_draw that found the swapchain marked stale
RecreateStep == PreDrawStep /\ rawvk.recreate_swapchain

\* swapchain, images, framebuffers, depth buffer and projections as they were
SwapchainStateKept ==
  /\ rawvk'.swapchain = rawvk.swapchain
  /\ rawvk'.images = rawvk.images
  /\ rawvk'.framebuffers = rawvk.framebuffers
  /\ rawvk'.depth_buffer = rawvk.depth_buffer
  /\ rawvk'.projection_2d = rawvk.projection_2d
  /\ rawvk'.projection_3d = rawvk.projection_3d

\* pre_draw with unsupported dimensions returns with everything as it was and
\* the flag still set
UnsupportedIsNotFatal ==
  RecreateStep /\ ~SupportedDimensions(rawvk.window_dimensions)
    => /\ ~rawvk'.crashed
       /\ SwapchainStateKept
       /\ rawvk'.recreate_swapchain

\* pre_draw with supported dimensions recreates: the flag is cleared and
\* there is one framebuffer per image of the new swapchain
SupportedRecreates ==
  RecreateStep /\ SupportedDimensions(rawvk.window_dimensions) /\ ~rawvk'.crashed
    => /\ ~rawvk'.recreate_swapchain
       /\ RebuiltFor(rawvk', rawvk.window_dimensions)

\* no draw is submitted in the frame whose pre_draw failed to recreate
FrameSkipped ==
  DrawSubmitted =>
    ~(rawvk.last_call = "pre_draw" /\ rawvk.pre_draw_result = "unsupported")

\* C17: if swapchain recreation fails with UnsupportedDimensions, pre_draw
\* does not abort: swapchain, images, framebuffers, depth buffer and
\* projections stay as they were and the stale flag stays set, the frame is
\* skipped (no draw is submitted after that pre_draw), and a later pre_draw
\* with supported dimensions recreates and ends with as many framebuffers as
\* the swapchain has images.
C17_Claim == [][UnsupportedIsNotFatal /\ FrameSkipped /\ SupportedRecreates]_vars

\* the part of C17 that pre_draw itself guarantees
C17_NonFatal == [][UnsupportedIsNotFatal /\ SupportedRecreates]_vars

\* draw with an out-of-date acquire: the flag is set, nothing is recorded or
\* submitted, the completion token of the previous frame stays, no panic
OutOfDateMarksStale ==
  OutOfDateStep
    => /\ rawvk'.recreate_swapchain
       /\ ~rawvk'.crashed
       /\ rawvk'.frames = rawvk.frames
       /\ rawvk'.previous_frame_end = rawvk.previous_frame_end
       /\ is_some(rawvk'.previous_frame_end)
       /\ SwapchainStateKept

\* the pre_draw recreated the swapchain for the size of the window
Recreated ==
  /\ rawvk'.pre_draw_result = "recreated"
  /\ rawvk'.swapchain = rawvk.window_dimensions
  /\ ~rawvk'.recreate_swapchain

\* C18 as stated: when the acquire reports OutOfDate, draw sets
\* recreate_swapchain, records and submits nothing, keeps the completion token
\* of the previous frame and returns normally; the next pre_draw (one that
\* finds the flag set) then recreates the swapchain, a fatal creation error
\* apart.
C18_Claim ==
  [][/\ OutOfDateMarksStale
     /\ (RecreateStep => rawvk'.crashed \/ Recreated)]_vars

\* C18, amended: as above, but the next pre_draw recreates the swapchain only
\* if the dimensions of the window are supported; with unsupported dimensions
\* it returns leaving the swapchain as it was and the flag set.
C18_OutOfDateMarksStale ==
  [][/\ OutOfDateMarksStale
     /\ (RecreateStep =>
           IF SupportedDimensions(rawvk.window_dimensions)
           THEN rawvk'.crashed \/ Recreated
           ELSE /\ ~rawvk'.crashed
                /\ rawvk'.recreate_swapchain
                /\ SwapchainStateKept)]_vars

\* an out-of-date acquire marked the swapchain and the pre_draw that followed
\* has recreated it
C18_Witness ==
  /\ rawvk.marked_by = "OutOfDate"
  /\ rawvk.last_call = "pre_draw"
  /\ rawvk.pre_draw_result = "recreated"
  /\ ~rawvk.recreate_swapchain
  /\ ~rawvk.crashed
  /\ rawvk.swapchain = rawvk.window_dimensions


\* ================================= TextureShader (texture_shader.rs)
\* an object of the device made by a create call: which kind, for which
\* extent, by which operation and at which index, how often destroyed and by
\* which operation and loop index
NewObject(kind, extent, op, i) ==
  [kind |-> kind, extent |-> extent, made_in |-> op, index |-> i,
   destroyed |-> 0, destroyed_in |-> [op |-> 0, i |-> 0]]

\* x.destroy(device), called by operation op at loop index i
DestroyObject(objs, id, op, i) ==
  [objs EXCEPT ![id].destroyed = @ + 1,
               ![id].destroyed_in = [op |-> op, i |-> i]]

\* TextureShader::create_frame_buffers with an msaa attachment pushed for every
\* image view whatever the sample count
create_frame_buffers_MsaaAlways(objs, swapchain_extent, msaa, num_image_views, op) ==
  LET base == Len(objs)
      per == 2
      colour == [j \in 1 .. num_image_views |-> base + per * (j - 1) + 1]
      msaa_images == [j \in 1 .. num_image_views |-> base + per * j]
      fb_base == base + per * num_image_views
      made == [k \in 1 .. per * num_image_views |->
                 IF k % 2 = 0
                 THEN NewObject("msaa", swapchain_extent, op, k \div 2)
                 ELSE NewObject("colour", swapchain_extent, op, (k + 1) \div 2)]
      fbs == [i \in 1 .. Len(colour) |-> NewObject("framebuffer", swapchain_extent, op, i)]
  IN [framebuffer_colour_images |-> colour,
      framebuffer_msaa_images |-> msaa_images,
      framebuffers |-> [i \in 1 .. Len(colour) |-> fb_base + i],
      objects |-> objs \o made \o fbs]

\* TextureShader::create_frame_buffers: per image view a colour attachment and,
\* if msaa is not OneBit, an msaa attachment; then one framebuffer per colour
\* attachment. The result holds the three vectors and the device's objects.
create_frame_buffers(objs, swapchain_extent, msaa, num_image_views, op) ==
  LET base == Len(objs)
      per == IF msaa # "OneBit" THEN 2 ELSE 1
      colour == [j \in 1 .. num_image_views |-> base + per * (j - 1) + 1]
      msaa_images == IF msaa # "OneBit"
                     THEN [j \in 1 .. num_image_views |-> base + per * j]
                     ELSE <<>>
      fb_base == base + per * num_image_views
      made == [k \in 1 .. per * num_image_views |->
                 IF msaa # "OneBit" /\ k % 2 = 0
                 THEN NewObject("msaa", swapchain_extent, op, k \div 2)
                 ELSE NewObject("colour", swapchain_extent, op, (k + per - 1) \div per)]
      fbs == [i \in 1 .. Len(colour) |-> NewObject("framebuffer", swapchain_extent, op, i)]
  IN [framebuffer_colour_images |-> colour,
      framebuffer_msaa_images |-> msaa_images,
      framebuffers |-> [i \in 1 .. Len(colour) |-> fb_base + i],
      objects |-> objs \o made \o fbs]

\* the owner of the TextureShader calls recreate and destroy on a shader that
\* was constructed and not yet destroyed
ShaderLive == shader.alive = "live"

\* TextureShader::new
new(current_extent, num_image_views, msaa) ==
  /\ shader.alive = "none"
  /\ LET op == shader.ops + 1
         made == create_frame_buffers(shader.objects, current_extent, msaa,
                                      num_image_views, op)
     IN shader' = [shader EXCEPT
                     !.alive = "live",
                     !.msaa = msaa,
                     !.framebuffers = made.framebuffers,
                     !.framebuffer_colour_images = made.framebuffer_colour_images,
                     !.framebuffer_msaa_images = made.framebuffer_msaa_images,
                     !.objects = made.objects,
                     !.ops = op,
                     !.image_views = num_image_views,
                     !.extent = current_extent]
  /\ UNCHANGED <<rm_vars, upload_vars, rawvk, draws, maat, vk, vk>>

\* the loop of recreate from index i on: destroys framebuffers[i],
\* framebuffer_colour_images[i] and, if with_msaa, framebuffer_msaa_images[i].
\* The result is the device's objects, or "panic" for an index out of bounds.
RECURSIVE DestroyLoop(_, _, _, _, _)
DestroyLoop(s, objs, i, op, with_msaa) ==
  IF i > Len(s.framebuffers)
  THEN [panic |-> FALSE, objects |-> objs]
  ELSE IF i > Len(s.framebuffer_colour_images)
          \/ (with_msaa /\ i > Len(s.framebuffer_msaa_images))
  THEN [panic |-> TRUE, objects |-> objs]
  ELSE LET o1 == DestroyObject(objs, s.framebuffers[i], op, i)
           o2 == DestroyObject(o1, s.framebuffer_colour_images[i], op, i)
           o3 == IF with_msaa
                 THEN DestroyObject(o2, s.framebuffer_msaa_images[i], op, i)
                 ELSE o2
       IN DestroyLoop(s, o3, i + 1, op, with_msaa)

\* the body of recreate, given whether its loop destroys the msaa attachments
Recreate(new_extent, num_image_views, with_msaa) ==
  LET op == shader.ops + 1
      destroyed == DestroyLoop(shader, shader.objects, 1, op, with_msaa)
      made == create_frame_buffers(destroyed.objects, new_extent, shader.msaa,
                                   num_image_views, op)
  IN IF destroyed.panic
     THEN shader' = [shader EXCEPT !.alive = "crashed", !.objects = destroyed.objects,
                                   !.ops = op]
     ELSE shader' = [shader EXCEPT
                       !.framebuffers = made.framebuffers,
                       !.framebuffer_colour_images = made.framebuffer_colour_images,
                       !.framebuffer_msaa_images = made.framebuffer_msaa_images,
                       !.objects = made.objects,
                       !.ops = op,
                       !.image_views = num_image_views,
                       !.extent = new_extent]

\* the number of calls of recreate so far
Recreates == IF shader.ops = 0 THEN 0 ELSE shader.ops - 1

\* TextureShader::recreate with a loop that leaves the msaa attachments alone
recreate_MsaaNotDestroyed(new_extent, num_image_views) ==
  /\ ShaderLive
  /\ Recreates < MaxRecreates
  /\ Recreate(new_extent, num_image_views, FALSE)
  /\ UNCHANGED <<rm_vars, upload_vars, rawvk, draws, maat, vk, vk>>

\* TextureShader::recreate
recreate(new_extent, num_image_views) ==
  /\ ShaderLive
  /\ Recreates < MaxRecreates
  /\ Recreate(new_extent, num_image_views, shader.msaa # "OneBit")
  /\ UNCHANGED <<rm_vars, upload_vars, rawvk, draws, maat, vk, vk>>

\* x.destroy(device) for every x of a vector, in order
RECURSIVE DestroyAll(_, _, _, _)
DestroyAll(objs, ids, i, op) ==
  IF i > Len(ids)
  THEN objs
  ELSE DestroyAll(DestroyObject(objs, ids[i], op, i), ids, i + 1, op)

\* TextureShader::destroy: the framebuffers, the colour images, the msaa images
destroy ==
  /\ ShaderLive
  /\ LET op == shader.ops + 1
         o1 == DestroyAll(shader.objects, shader.framebuffers, 1, op)
         o2 == DestroyAll(o1, shader.framebuffer_colour_images, 1, op)
         o3 == DestroyAll(o2, shader.framebuffer_msaa_images, 1, op)
     IN shader' = [shader EXCEPT !.alive = "destroyed", !.objects = o3, !.ops = op]
  /\ UNCHANGED <<rm_vars, upload_vars, rawvk, draws, maat, vk, vk>>

ShaderNext ==
  \/ \E current_extent \in Extents \ {0}, num_image_views \in ViewCounts,
        msaa \in SampleCounts : new(current_extent, num_image_views, msaa)
  \/ \E new_extent \in Extents \ {0}, num_image_views \in ViewCounts :
       recreate(new_extent, num_image_views)
  \/ destroy

ShaderSpec == Init /\ [][ShaderNext]_vars

\* the ids of the objects of one kind the shader holds
Held == [kind \in {"framebuffer", "colour", "msaa"} |->
           LET v == CASE kind = "framebuffer" -> shader.framebuffers
                      [] kind = "colour" -> shader.framebuffer_colour_images
                      [] OTHER -> shader.framebuffer_msaa_images
           IN {v[i] : i \in 1 .. Len(v)}]

ObjectIds == 1 .. Len(shader.objects)

\* the msaa attachment that was made together with a framebuffer
MsaaOf(f) ==
  {a \in ObjectIds : /\ shader.objects[a].kind = "msaa"
                     /\ shader.objects[a].made_in = shader.objects[f].made_in
                     /\ shader.objects[a].index = shader.objects[f].index}

\* C19: after TextureShader::new and after every recreate the number of
\* framebuffers equals the number of colour attachment images and the number
\* of image views of the swapchain, the number of msaa attachments equals
\* that number when msaa is enabled and is zero otherwise, and every msaa
\* attachment that a recreate destroyed was destroyed in the same step of
\* that recreate as the framebuffer of the same index.
C19_FramebufferCounts ==
  /\ ShaderLive =>
       /\ Len(shader.framebuffers) = shader.image_views
       /\ Len(shader.framebuffer_colour_images) = shader.image_views
       /\ Len(shader.framebuffer_msaa_images) =
            IF shader.msaa # "OneBit" THEN shader.image_views ELSE 0
       /\ \A f \in Held["framebuffer"] : shader.objects[f].extent = shader.extent
  /\ \A f \in ObjectIds :
       shader.objects[f].kind = "framebuffer" =>
         \A a \in MsaaOf(f) :
           /\ shader.objects[a].destroyed = shader.objects[f].destroyed
           /\ shader.objects[a].destroyed_in = shader.objects[f].destroyed_in

\* a shader with msaa was recreated: its first framebuffers and msaa
\* attachments are destroyed, the new ones are held
C19_Witness ==
  /\ ShaderLive
  /\ shader.msaa # "OneBit"
  /\ shader.ops = 2
  /\ shader.image_views = 2
  /\ \E f \in ObjectIds :
       /\ shader.objects[f].kind = "framebuffer"
       /\ shader.objects[f].destroyed = 1
       /\ MsaaOf(f) # {}

\* what a Valid shader looks like from outside: how many framebuffers and
\* attachments it holds, for which extent, and how many objects of the
\* device are not destroyed
ValidState(s) ==
  [framebuffers |-> Len(s.framebuffers),
   colour |-> Len(s.framebuffer_colour_images),
   msaa |-> Len(s.framebuffer_msaa_images),
   extents |-> {s.objects[s.framebuffers[i]].extent : i \in 1 .. Len(s.framebuffers)}
                 \cup {s.objects[s.framebuffer_colour_images[i]].extent :
                         i \in 1 .. Len(s.framebuffer_colour_images)}
                 \cup {s.objects[s.framebuffer_msaa_images[i]].extent :
                         i \in 1 .. Len(s.framebuffer_msaa_images)},
   alive |-> s.alive,
   not_destroyed |-> Cardinality({o \in 1 .. Len(s.objects) : s.objects[o].destroyed = 0})]

\* a step of recreate with the extent and image views the shader already has
SameExtentRecreate ==
  /\ shader.ops >= 2
  /\ recreate(shader.extent, shader.image_views)

\* every object the shader holds is not destroyed, every other object that was
\* created is destroyed exactly once
DestroyedExactlyOnce ==
  \A o \in ObjectIds :
    LET held == ShaderLive /\ o \in Held[shader.objects[o].kind]
    IN shader.objects[o].destroyed = (IF held THEN 0 ELSE 1)

RawVk_load_texture_TokenNotJoined(reference, location) ==
  /\ ~rawvk.crashed
  /\ IF location = ""
     THEN rawvk' = [rawvk EXCEPT !.last_call = "load_texture"]
     ELSE IF ~FileExists(location)
     THEN RawVkPanic
     ELSE IF ~is_some(rawvk.previous_frame_end)
     THEN RawVkPanic
     ELSE rawvk' = [rawvk EXCEPT
                      !.submitted = @ \cup {Work("texture", 0, reference)},
                      !.previous_frame_end = Some({Work("texture", 0, reference)}),
                      !.last_call = "load_texture"]
  /\ UNCHANGED <<rm_vars, upload_vars, shader, draws, maat, vk, vk>>

\* RawVk::load_texture
RawVk_load_texture(reference, location) ==
  /\ ~rawvk.crashed
  /\ IF location = ""
     THEN rawvk' = [rawvk EXCEPT !.last_call = "load_texture"]
     ELSE IF ~FileExists(location)
     THEN RawVkPanic   \* image::open(&location).unwrap()
     ELSE IF ~is_some(rawvk.previous_frame_end)
     THEN RawVkPanic   \* self.previous_frame_end.take().unwrap()
     ELSE rawvk' = [rawvk EXCEPT
                      !.submitted = @ \cup {Work("texture", 0, reference)},
                      !.previous_frame_end =
                        Some(join({Work("texture", 0, reference)},
                                  rawvk.previous_frame_end.val)),
                      !.last_call = "load_texture"]
  /\ UNCHANGED <<rm_vars, upload_vars, shader, draws, maat, vk, vk>>

\* RawVk::load_model
RawVk_load_model(reference) ==
  /\ ~rawvk.crashed
  /\ IF ~is_some(rawvk.previous_frame_end)
     THEN RawVkPanic   \* self.previous_frame_end.take().unwrap()
     ELSE rawvk' = [rawvk EXCEPT
                      !.submitted = @ \cup {Work("model", 0, reference)},
                      !.previous_frame_end =
                        Some(join({Work("model", 0, reference)},
                                  rawvk.previous_frame_end.val)),
                      !.last_call = "load_model"]
  /\ UNCHANGED <<rm_vars, upload_vars, shader, draws, maat, vk, vk>>

FrameNext ==
  \/ load_shaders
  \/ \E reference \in ModelRefs, location \in Locations \cup {""} :
       RawVk_load_texture(reference, location)
  \/ \E reference \in ModelRefs : RawVk_load_model(reference)
  \/ \E dimensions \in Extents : WindowResized(dimensions)
  \/ \E result \in {"Ok", "UnsupportedDimensions", "SurfaceLost"}, new_images \in ImageCounts :
       pre_draw(result, new_images)
  \/ \E acquired \in {"Ok", "OutOfDate", "SurfaceLost"}, image_num \in 0 .. MaxImages - 1 :
       draw(acquired, image_num)

FrameSpec == Init /\ [][FrameNext]_vars

\* ---------------------------------------------------------------------
\* RawVk: deferred loading (add_texture, add_model, add_font, dynamic_load)
\* ---------------------------------------------------------------------

\* the locations a texture is added with: load_texture skips ""
TextureLocations == Locations \cup {""}
\* the location of a model file
ModelLocations == {"brick.ogex"}

\* the entries of self.texture_paths and of self.model_paths
PendingTextures == {r \in Refs : is_some(rawvk.texture_paths[r])}
PendingModels == {r \in ModelRefs : is_some(rawvk.model_paths[r])}

\* RawVk::add_texture
RawVk_add_texture(reference, location) ==
  /\ ~rawvk.crashed
  /\ rawvk' = [rawvk EXCEPT !.texture_paths[reference] = Some(location),
                            !.last_call = "add_texture"]
  /\ UNCHANGED <<rm_vars, upload_vars, shader, draws, maat, vk>>

\* RawVk::add_model: the model is entered in model_paths and its texture,
\* by add_texture, in texture_paths
RawVk_add_model(reference, location, texture) ==
  /\ ~rawvk.crashed
  /\ rawvk' = [rawvk EXCEPT
                 !.model_paths[reference] =
                   Some([location |-> location, texture |-> texture]),
                 !.texture_paths[reference] = Some(texture),
                 !.last_call = "add_model"]
  /\ UNCHANGED <<rm_vars, upload_vars, shader, draws, maat, vk>>

\* RawVk::add_font: the font is loaded at once, its texture is entered in
\* texture_paths
RawVk_add_font(reference, font_texture) ==
  /\ ~rawvk.crashed
  /\ rawvk' = [rawvk EXCEPT !.texture_paths[reference] = Some(font_texture),
                            !.last_call = "add_font"]
  /\ UNCHANGED <<rm_vars, upload_vars, shader, draws, maat, vk>>

\* the uploads that load_texture and load_model submit for the textures and
\* the models given
Uploads(textures, models) ==
  {Work("texture", 0, r) : r \in {t \in textures : rawvk.texture_paths[t].val # ""}}
    \cup {Work("model", 0, r) : r \in models}

\* RawVk::dynamic_load: loads pending textures, then pending models, each
\* loop left when more than time_limit has passed. textures and models are
\* those loaded by this call; timed_out says that the limit had passed when
\* the texture loop was over.
dynamic_load(textures, models, timed_out) ==
  /\ ~rawvk.crashed
  /\ textures \subseteq PendingTextures
  /\ models \subseteq PendingModels
  /\ textures # PendingTextures => (textures # {} /\ timed_out)
  /\ timed_out => models = {}
  /\ models # PendingModels => (models # {} \/ timed_out)
  /\ IF \E r \in textures : /\ rawvk.texture_paths[r].val # ""
                            /\ ~FileExists(rawvk.texture_paths[r].val)
     THEN RawVkPanic   \* image::open(&location).unwrap() in load_texture
     ELSE LET still_loading == textures # {} \/ models # {}
              submitted == Uploads(textures, models)
          IN rawvk' = [rawvk EXCEPT
               !.texture_paths = [r \in Refs |->
                                    IF r \in textures THEN None ELSE @[r]],
               !.model_paths = [r \in ModelRefs |->
                                  IF r \in models THEN None ELSE @[r]],
               !.submitted = @ \cup submitted,
               !.previous_frame_end =
                 IF submitted = {} THEN @ ELSE Some(join(submitted, @.val)),
               !.ready = IF ~timed_out /\ ~still_loading THEN TRUE ELSE @,
               !.last_call = "dynamic_load"]
  /\ UNCHANGED <<rm_vars, upload_vars, shader, draws, maat, vk>>

\* RawVk::is_ready
is_ready == rawvk.ready

LoadNext ==
  \/ \E reference \in Refs, location \in TextureLocations :
       RawVk_add_texture(reference, location)
  \/ \E reference \in ModelRefs, location \in ModelLocations, texture \in TextureLocations :
       RawVk_add_model(reference, location, texture)
  \/ \E reference \in Refs, font_texture \in TextureLocations :
       RawVk_add_font(reference, font_texture)
  \/ \E textures \in SUBSET Refs, models \in SUBSET ModelRefs, timed_out \in BOOLEAN :
       dynamic_load(textures, models, timed_out)

LoadSpec == Init /\ [][LoadNext]_vars

\* the retained token is there and stands for all the work submitted so far
TokenCoversSubmitted ==
  ~rawvk.crashed =>
    /\ is_some(rawvk.previous_frame_end)
    /\ rawvk.previous_frame_end.val = rawvk.submitted

\* the frame that a step of draw submits is chained after the retained token,
\* and its own token is retained instead
FrameChained ==
  DrawSubmitted =>
    LET frame == Work("frame", rawvk.frames + 1, "")
    IN /\ rawvk'.frame_after = rawvk.previous_frame_end.val
       /\ rawvk'.frame_after = rawvk.submitted
       /\ rawvk'.previous_frame_end = Some(rawvk.submitted \cup {frame})
       /\ frame \notin rawvk.submitted

\* C21: every frame submission made by draw is chained after the retained
\* completion token of all work submitted before (the previous frame and any
\* texture, model or index upload joined into it), and a successful draw
\* replaces the retained token by the token of the new frame; after every
\* operation that completes (load_texture, load_model, load_shaders, draw,
\* the out-of-date early return included) previous_frame_end holds a token
\* and is never left empty.
C21_TokenChain == [][FrameChained]_vars /\ []TokenCoversSubmitted

\* a second frame was submitted after a texture and a model were uploaded
\* and after an out-of-date acquire returned early
C21_Witness ==
  /\ ~rawvk.crashed
  /\ rawvk.frames = 2
  /\ rawvk.last_call = "draw"
  /\ rawvk.marked_by = "OutOfDate"
  /\ Work("frame", 1, "") \in rawvk.frame_after
  /\ \E r1 \in ModelRefs, r2 \in ModelRefs :
       {Work("texture", 0, r1), Work("model", 0, r2), Work("index_2d", 0, "")}
         \subseteq rawvk.frame_after

\* ====================== TextureShader: draws (texture_shader.rs)
DrawsPanic == draws' = [draws EXCEPT !.crashed = TRUE]

\* self.descriptor_sets.contains_key(reference): "" is inserted by new
descriptor_sets_contains_key(reference) ==
  reference = "" \/ descriptor_sets[reference] # 0

\* self.instanced_descriptor_sets.get(reference) is Some
instanced_descriptor_sets_contains_key(reference) ==
  reference = "" \/ draws.instanced_descriptor_sets[reference] # 0

\* a command recorded into the command buffer: a draw with a descriptor set,
\* which for an instanced draw reads a slot of a buffer as frame wrote it last
DrawCommand(op, reference, buffer, index, content, instances) ==
  [op |-> op, reference |-> reference, buffer |-> buffer, slot |-> index,
   content |-> content, instances |-> instances]

\* MAX_INSTANCES (8096 in the source): the number of instances the buffer
\* and its accumulator are allocated for, scaled so that one addition more
\* than the capacity is followed
MAX_INSTANCES == MaxInstances - 1

\* UniformData::add_vector4, three times: one more instance of 12 floats in
\* the accumulator; what happens beyond the capacity it was created with is
\* open: the data is dropped, or the accumulator grows
add_vector4s(instances, truncates) ==
  IF instances >= MAX_INSTANCES /\ truncates THEN instances ELSE instances + 1

\* TextureShader::add_instanced_buffer: a cpu buffer with one slot per image view
add_instanced_buffer(reference) ==
  /\ ~draws.crashed
  /\ draws' = [draws EXCEPT !.instanced_cpu_buffers[reference] =
                 Some([data |-> 0, slot |-> [i \in Slots |-> EmptySlot]])]
  /\ UNCHANGED <<rm_vars, upload_vars, rawvk, shader, maat, vk, vk>>

\* TextureShader::add_instanced_draw
add_instanced_draw(buffer_reference) ==
  /\ ~draws.crashed
  /\ draws.added < MaxInstances
  /\ is_some(draws.instanced_cpu_buffers[buffer_reference]) =>
       draws.instanced_cpu_buffers[buffer_reference].val.data < MaxInstances
  /\ IF ~is_some(draws.instanced_cpu_buffers[buffer_reference])
     THEN DrawsPanic   \* self.instanced_cpu_buffers.get_mut(..).unwrap()
     ELSE \E truncates \in BOOLEAN :
            draws' = [draws EXCEPT
                        !.instanced_cpu_buffers[buffer_reference].val.data =
                          add_vector4s(@, truncates),
                        !.added = @ + 1]
  /\ UNCHANGED <<rm_vars, upload_vars, rawvk, shader, maat, vk, vk>>

\* buffer.fill_buffer(device, current_buffer, data): the slot now holds what
\* frame wrote, and how often frame has written it
fill_buffer(buffer, current_buffer, frame) ==
  [buffer EXCEPT
     !.slot[current_buffer] =
       IF @.frame = frame
       THEN [frame |-> frame, write |-> @.write + 1]
       ELSE [frame |-> frame, write |-> 1]]

\* the body of draw_instanced, writing the slot given
DrawInstanced(current_buffer, filled_slot, buffer_reference, texture_reference) ==
  IF ~is_some(draws.instanced_cpu_buffers[buffer_reference])
  THEN draws' = draws
  ELSE LET buffer == draws.instanced_cpu_buffers[buffer_reference].val
           filled == fill_buffer(buffer, filled_slot, draws.frame)
       IN IF buffer.data = 0
          THEN draws' = draws
          ELSE IF ~instanced_descriptor_sets_contains_key(texture_reference)
          THEN draws' = [draws EXCEPT    \* filled, then get(..).unwrap() panics
                           !.instanced_cpu_buffers[buffer_reference] = Some(filled),
                           !.crashed = TRUE]
          ELSE draws' = [draws EXCEPT
                           !.instanced_cpu_buffers[buffer_reference] =
                             Some([filled EXCEPT !.data = 0]),
                           !.cmd = Append(@, DrawCommand("draw_instanced_indexed",
                                                         texture_reference,
                                                         buffer_reference,
                                                         current_buffer,
                                                         filled.slot[current_buffer],
                                                         buffer.data))]

\* TextureShader::draw_instanced that fills the slot of the next image
draw_instanced_OtherSlot(buffer_reference, texture_reference) ==
  /\ ~draws.crashed
  /\ draws.recording
  /\ DrawInstanced(draws.current_buffer, (draws.current_buffer + 1) % FramesInFlight,
                   buffer_reference, texture_reference)
  /\ UNCHANGED <<rm_vars, upload_vars, rawvk, shader, maat, vk, vk>>

\* TextureShader::draw_instanced, called with the command buffer and the image
\* index of the frame being recorded
draw_instanced(buffer_reference, texture_reference) ==
  /\ ~draws.crashed
  /\ draws.recording
  /\ DrawInstanced(draws.current_buffer, draws.current_buffer,
                   buffer_reference, texture_reference)
  /\ UNCHANGED <<rm_vars, upload_vars, rawvk, shader, maat, vk, vk>>

\* commands are recorded up to MaxCommands per frame
MaxCommands == 1

\* TextureShader::draw_texture
draw_texture(texture_reference) ==
  /\ ~draws.crashed
  /\ draws.recording
  /\ Len(draws.cmd) < MaxCommands
  /\ IF ~descriptor_sets_contains_key(texture_reference)
     THEN draws' = draws
     ELSE draws' = [draws EXCEPT
                      !.cmd = Append(@, DrawCommand("draw_indexed", texture_reference,
                                                    "", 0, EmptySlot, 1))]
  /\ UNCHANGED <<rm_vars, upload_vars, rawvk, shader, maat, vk, vk>>

\* TextureShader::draw_text, for a text of one letter
draw_text(font) ==
  /\ ~draws.crashed
  /\ draws.recording
  /\ Len(draws.cmd) < MaxCommands
  /\ IF ~descriptor_sets_contains_key(font)
     THEN draws' = draws
     ELSE draws' = [draws EXCEPT
                      !.cmd = Append(@, DrawCommand("draw_text", font, "", 0, EmptySlot, 1))]
  /\ UNCHANGED <<rm_vars, upload_vars, rawvk, shader, maat, vk, vk>>

\* begin_frame: acquires an image index that no frame in flight uses (waits
\* for the completion token of the frame that used it last) and starts
\* recording the frame's command buffer
begin_frame(present_index) ==
  /\ ~draws.crashed
  /\ ~draws.recording
  /\ draws.frame < MaxDrawFrames
  /\ \A f \in draws.in_flight : f.index # present_index
  /\ draws' = [draws EXCEPT !.recording = TRUE,
                            !.frame = @ + 1,
                            !.current_buffer = present_index,
                            !.cmd = <<>>,
                            !.added = 0]
  /\ UNCHANGED <<rm_vars, upload_vars, rawvk, shader, maat, vk, vk>>

\* the instanced draws of a command buffer: each reads a slot of a buffer
SlotReads(cmd) ==
  {cmd[k] : k \in {j \in 1 .. Len(cmd) : cmd[j].op = "draw_instanced_indexed"}}

\* end_frame: submits the command buffer; the frame is in flight until its
\* completion token resolves
end_frame ==
  /\ ~draws.crashed
  /\ draws.recording
  /\ draws' = [draws EXCEPT
                 !.recording = FALSE,
                 !.cmd = <<>>,
                 !.in_flight = @ \cup {[frame |-> draws.frame,
                                        index |-> draws.current_buffer,
                                        reads |-> SlotReads(draws.cmd)]}]
  /\ UNCHANGED <<rm_vars, upload_vars, rawvk, shader, maat, vk, vk>>

\* the device finishes the oldest frame in flight: its token resolves
FrameResolved ==
  /\ draws.in_flight # {}
  /\ LET f == CHOOSE f \in draws.in_flight :
                \A g \in draws.in_flight : f.frame <= g.frame
     IN draws' = [draws EXCEPT !.in_flight = @ \ {f}]
  /\ UNCHANGED <<rm_vars, upload_vars, rawvk, shader, maat, vk, vk>>

DrawNext ==
  \/ \E reference \in InstanceRefs : add_instanced_buffer(reference)
  \/ \E buffer_reference \in InstanceRefs : add_instanced_draw(buffer_reference)
  \/ \E buffer_reference \in InstanceRefs, texture_reference \in TextureRefs :
       draw_instanced(buffer_reference, texture_reference)
  \/ \E texture_reference \in TextureRefs : draw_texture(texture_reference)
  \/ \E font \in TextureRefs : draw_text(font)
  \/ \E present_index \in Slots : begin_frame(present_index)
  \/ end_frame
  \/ FrameResolved

DrawSpec == Init /\ [][DrawNext]_vars

\* a step of draw_instanced that wrote slot i of the buffer
SlotWritten(buffer_reference, i) ==
  /\ \E texture_reference \in TextureRefs :
       draw_instanced(buffer_reference, texture_reference)
  /\ is_some(draws.instanced_cpu_buffers[buffer_reference])
  /\ draws'.instanced_cpu_buffers[buffer_reference].val.slot[i]
       # draws.instanced_cpu_buffers[buffer_reference].val.slot[i]

\* the frames in flight whose commands read slot i of the buffer
ReadersInFlight(buffer_reference, i) ==
  {f \in draws.in_flight :
     \E c \in f.reads : c.buffer = buffer_reference /\ c.slot = i}

C23_Claim ==
  \A b \in InstanceRefs :
    is_some(draws.instanced_cpu_buffers[b]) =>
      \A i \in Slots : draws.instanced_cpu_buffers[b].val.slot[i].write <= 1

\* a call of a draw operation with a reference that is not known
UnknownReferenceCall ==
  \/ \E r \in TextureRefs : ~descriptor_sets_contains_key(r) /\ draw_texture(r)
  \/ \E r \in TextureRefs : ~descriptor_sets_contains_key(r) /\ draw_text(r)
  \/ \E b \in InstanceRefs :
       ~is_some(draws.instanced_cpu_buffers[b]) /\ add_instanced_draw(b)
  \/ \E b \in InstanceRefs, r \in TextureRefs :
       /\ ~is_some(draws.instanced_cpu_buffers[b])
            \/ ~instanced_descriptor_sets_contains_key(r)
       /\ draw_instanced(b, r)

\* C27: using a texture, font or instance-buffer reference that is not known
\* never crashes: draw_texture, draw_text, draw_instanced and
\* add_instanced_draw return with the command buffer and the state of the
\* shader unchanged.
C27_Claim ==
  [][UnknownReferenceCall =>
       /\ ~draws'.crashed
       /\ draws'.cmd = draws.cmd
       /\ draws'.instanced_cpu_buffers = draws.instanced_cpu_buffers]_vars

\* the part of C27 that holds: draw_texture and draw_text with an unknown
\* reference, and draw_instanced with an unknown buffer, change nothing
C27_GracefulLookups ==
  [][(\/ \E r \in TextureRefs : ~descriptor_sets_contains_key(r) /\ draw_texture(r)
      \/ \E r \in TextureRefs : ~descriptor_sets_contains_key(r) /\ draw_text(r)
      \/ \E b \in InstanceRefs, r \in TextureRefs :
           ~is_some(draws.instanced_cpu_buffers[b]) /\ draw_instanced(b, r))
     => draws' = draws]_vars

\* ------------------------------------------ MaatGraphics (lib.rs)
Call(fn, index, item) == [fn |-> fn, index |-> index, item |-> item]

\* for (data, model) in model_data { self.model_handler.draw(..) }
RECURSIVE ModelDraws(_, _)
ModelDraws(model_data, k) ==
  IF k > Len(model_data)
  THEN <<>>
  ELSE <<Call("model_handler.draw", -1,
              [texture |-> model_data[k], some_text |-> None])>>
       \o ModelDraws(model_data, k + 1)

\* for (data, texture, some_text) in texture_data { draw_text or draw }
RECURSIVE TextureDraws(_, _)
TextureDraws(texture_data, k) ==
  IF k > Len(texture_data)
  THEN <<>>
  ELSE <<Call(IF is_some(texture_data[k].some_text)
              THEN "texture_handler.draw_text"
              ELSE "texture_handler.draw",
              -1, texture_data[k])>>
       \o TextureDraws(texture_data, k + 1)

\* the call of model_handler.update_uniform_buffer when the camera was updated
CameraUpdate(is_updated) ==
  IF is_updated
  THEN <<Call("model_handler.update_uniform_buffer", -1, NoItem)>>
  ELSE <<>>

\* MaatGraphics::draw that does not call end_render
MaatGraphics_draw_NoEndRender(texture_data, model_data, start_render, is_updated) ==
  /\ ~maat.crashed
  /\ "MaatGraphics" \notin maat.gone
  /\ maat' =
       [maat EXCEPT
          !.last_call = "draw",
          !.args = [present |-> start_render, texture_data |-> texture_data,
                    model_data |-> model_data],
          !.calls =
            CameraUpdate(is_updated)
            \o <<Call("vulkan.start_render", -1, NoItem)>>
            \o IF is_some(start_render)
               THEN <<Call("vulkan.begin_renderpass_model", start_render.val, NoItem)>>
                    \o ModelDraws(model_data, 1)
                    \o <<Call("vulkan.end_renderpass", -1, NoItem)>>
                    \o <<Call("vulkan.begin_renderpass_texture", start_render.val, NoItem)>>
                    \o TextureDraws(texture_data, 1)
                    \o <<Call("vulkan.end_renderpass", -1, NoItem)>>
               ELSE <<>>]
  /\ UNCHANGED <<rm_vars, upload_vars, rawvk, shader, draws, vk>>

\* MaatGraphics::draw
MaatGraphics_draw(texture_data, model_data, start_render, is_updated) ==
  /\ ~maat.crashed
  /\ "MaatGraphics" \notin maat.gone
  /\ maat' =
       [maat EXCEPT
          !.last_call = "draw",
          !.args = [present |-> start_render, texture_data |-> texture_data,
                    model_data |-> model_data],
          !.calls =
            CameraUpdate(is_updated)
            \o <<Call("vulkan.start_render", -1, NoItem)>>
            \o IF is_some(start_render)
               THEN <<Call("vulkan.begin_renderpass_model", start_render.val, NoItem)>>
                    \o ModelDraws(model_data, 1)
                    \o <<Call("vulkan.end_renderpass", -1, NoItem)>>
                    \o <<Call("vulkan.begin_renderpass_texture", start_render.val, NoItem)>>
                    \o TextureDraws(texture_data, 1)
                    \o <<Call("vulkan.end_renderpass", -1, NoItem)>>
                    \o <<Call("vulkan.end_render", start_render.val, NoItem)>>
               ELSE <<>>,
          \* end_render submits the frame
          !.pending = IF is_some(start_render) THEN TRUE ELSE @]
  /\ UNCHANGED <<rm_vars, upload_vars, rawvk, shader, draws, vk>>

\* the device finishes the work submitted to it
DeviceFinishes ==
  /\ maat.pending
  /\ maat' = [maat EXCEPT !.pending = FALSE]
  /\ UNCHANGED <<rm_vars, upload_vars, rawvk, shader, draws, vk>>

\* x.destroy(device) for each object of a sequence, in order: what is
\* destroyed, by which operation, whether the device still had unfinished
\* work at that moment and whether the operation had to wait for it
RECURSIVE DestroyCalls(_, _, _, _, _)
DestroyCalls(objs, k, by, pending, waited) ==
  IF k > Len(objs)
  THEN <<>>
  ELSE <<[object |-> objs[k][1], class |-> objs[k][2], handle |-> 0, by |-> by,
          pending |-> pending, waited |-> waited]>>
       \o DestroyCalls(objs, k + 1, by, pending, waited)

\* the destroy calls of MaatGraphics::destroy
MaatDestroyCalls ==
  <<Call("texture_handler.destroy", -1, NoItem),
    Call("compute_descriptor_sets.destroy", -1, NoItem),
    Call("compute_shader.destroy", -1, NoItem),
    Call("destroy_descriptor_pool", -1, NoItem)>>

\* MaatGraphics::destroy without device_wait_idle
MaatGraphics_destroy_NoWait(wait_idle) ==
  /\ ~maat.crashed
  /\ "MaatGraphics" \notin maat.gone
  /\ maat' =
       [maat EXCEPT
          !.last_call = "destroy",
          !.calls = MaatDestroyCalls,
          !.args = NoArgs,
          !.destroyed = @ \o DestroyCalls(
              << <<"texture_handler", "texture_handler">>,
                 <<"compute_descriptor_sets", "descriptor_set">>,
                 <<"compute_shader", "compute_shader">>,
                 <<"compute_descriptor_pool", "descriptor_pool">> >>,
              1, "MaatGraphics::destroy", maat.pending, FALSE),
          !.gone = @ \cup {"MaatGraphics"}]
  /\ UNCHANGED <<rm_vars, upload_vars, rawvk, shader, draws, vk>>

\* MaatGraphics::destroy; wait_idle is the result of device_wait_idle
MaatGraphics_destroy(wait_idle) ==
  /\ ~maat.crashed
  /\ "MaatGraphics" \notin maat.gone
  /\ IF wait_idle = "Err"
     THEN \* device_wait_idle().unwrap()
          maat' = [maat EXCEPT !.last_call = "destroy",
                               !.calls = <<Call("device_wait_idle", -1, NoItem)>>,
                               !.args = NoArgs,
                               !.crashed = TRUE]
     ELSE maat' =
            [maat EXCEPT
               !.last_call = "destroy",
               !.calls = <<Call("device_wait_idle", -1, NoItem)>> \o MaatDestroyCalls,
               !.args = NoArgs,
               !.pending = FALSE,
               !.destroyed = @ \o DestroyCalls(
                   << <<"texture_handler", "texture_handler">>,
                      <<"compute_descriptor_sets", "descriptor_set">>,
                      <<"compute_shader", "compute_shader">>,
                      <<"compute_descriptor_pool", "descriptor_pool">> >>,
                   1, "MaatGraphics::destroy", FALSE, maat.pending),
               !.gone = @ \cup {"MaatGraphics"}]
  /\ UNCHANGED <<rm_vars, upload_vars, rawvk, shader, draws, vk>>

\* TextureShader::recreate, by the kinds of objects it destroys
TextureShader_recreate(with_msaa) ==
  /\ ~maat.crashed
  /\ "TextureShader" \notin maat.gone
  /\ maat' =
       [maat EXCEPT
          !.recreated = DestroyCalls(
              << <<"framebuffers", "framebuffer">>,
                 <<"framebuffer_colour_images", "image">> >>
              \o (IF with_msaa
                  THEN << <<"framebuffer_msaa_images", "image">> >>
                  ELSE <<>>),
              1, "TextureShader::recreate", maat.pending, FALSE)]
  /\ UNCHANGED <<rm_vars, upload_vars, rawvk, shader, draws, vk>>

\* TextureShader::destroy, by the kinds of objects it destroys, in its order
TextureShader_destroy ==
  /\ ~maat.crashed
  /\ "TextureShader" \notin maat.gone
  /\ maat' =
       [maat EXCEPT
          !.destroyed = @ \o DestroyCalls(
              << <<"uniform_buffer", "buffer">>,
                 <<"index_buffer", "buffer">>,
                 <<"vertex_buffer", "buffer">>,
                 <<"instanced_cpu_buffers", "buffer">>,
                 <<"texture_pipeline", "pipeline">>,
                 <<"text_pipeline", "pipeline">>,
                 <<"instanced_pipeline", "pipeline">>,
                 <<"descriptor_sets", "descriptor_set">>,
                 <<"instanced_descriptor_sets", "descriptor_set">>,
                 <<"vertex_shader_texture", "shader">>,
                 <<"fragment_shader_texture", "shader">>,
                 <<"vertex_shader_text", "shader">>,
                 <<"fragment_shader_text", "shader">>,
                 <<"vertex_shader_instanced", "shader">>,
                 <<"fragment_shader_instanced", "shader">>,
                 <<"framebuffers", "framebuffer">>,
                 <<"framebuffer_colour_images", "image">>,
                 <<"framebuffer_msaa_images", "image">>,
                 <<"renderpass", "render_pass">> >>,
              1, "TextureShader::destroy", maat.pending, FALSE),
          !.gone = @ \cup {"TextureShader"}]
  /\ UNCHANGED <<rm_vars, upload_vars, rawvk, shader, draws, vk>>

\* one release of a handle of an image
Release(object, image, by, pending) ==
  [object |-> object, class |-> "image", handle |-> image.handle, by |-> by,
   pending |-> pending, waited |-> FALSE]

\* Image::destroy that frees the memory first
Image_destroy_MemoryFirst(image, by, pending) ==
  <<Release("memory", image, by, pending),
    Release("image_view", image, by, pending),
    Release("image", image, by, pending)>>

\* Image::destroy: DestroyImageView, DestroyImage, FreeMemory
Image_destroy(image, by, pending) ==
  <<Release("image_view", image, by, pending),
    Release("image", image, by, pending),
    Release("memory", image, by, pending)>>

\* for object in &self.objects: image.destroy(device) for a loaded object
\* that holds an image
RECURSIVE DestroyObjects(_, _, _)
DestroyObjects(objs, k, pending) ==
  IF k > Len(objs)
  THEN <<>>
  ELSE (IF objs[k].loaded /\ is_some(objs[k].object_type.image)
        THEN Image_destroy(objs[k].object_type.image.val,
                           "ResourceManager::destroy", pending)
        ELSE <<>>)
       \o DestroyObjects(objs, k + 1, pending)

\* ResourceManager::destroy
ResourceManager_destroy ==
  /\ ~maat.crashed
  /\ "ResourceManager" \notin maat.gone
  /\ maat' =
       [maat EXCEPT
          !.destroyed = @ \o DestroyObjects(objects, 1, maat.pending),
          !.gone = @ \cup {"ResourceManager"}]
  /\ UNCHANGED <<rm_vars, upload_vars, rawvk, shader, draws, vk>>

\* Drop for VkWindow without self.device.wait()
VkWindow_drop_NoWait ==
  /\ ~maat.crashed
  /\ "VkWindow" \notin maat.gone
  /\ maat' =
       [maat EXCEPT
          !.destroyed = @ \o DestroyCalls(
              << <<"swapchain", "swapchain">>,
                 <<"device", "device">>,
                 <<"instance", "instance">> >>,
              1, "VkWindow::drop", maat.pending, FALSE),
          !.gone = @ \cup {"VkWindow"}]
  /\ UNCHANGED <<rm_vars, upload_vars, rawvk, shader, draws, vk>>

\* Drop for VkWindow
VkWindow_drop ==
  /\ ~maat.crashed
  /\ "VkWindow" \notin maat.gone
  /\ maat' =
       [maat EXCEPT
          \* self.device.wait()
          !.pending = FALSE,
          !.destroyed = @ \o DestroyCalls(
              << <<"swapchain", "swapchain">>,
                 <<"device", "device">>,
                 <<"instance", "instance">> >>,
              1, "VkWindow::drop", FALSE, maat.pending),
          !.gone = @ \cup {"VkWindow"}]
  /\ UNCHANGED <<rm_vars, upload_vars, rawvk, shader, draws, vk>>

\* the caller of a destroy method has made sure that the device is idle
DeviceIdle == ~maat.pending

\* the window is dropped after everything that lives on its device
ShutdownLast == {"MaatGraphics", "TextureShader", "ResourceManager"} \subseteq maat.gone

MaatNext ==
  \/ \E texture_data \in TextureData, model_data \in ModelData,
        start_render \in PresentIndices, is_updated \in BOOLEAN :
       MaatGraphics_draw(texture_data, model_data, start_render, is_updated)
  \/ DeviceFinishes
  \/ \E wait_idle \in {"Ok", "Err"} : MaatGraphics_destroy(wait_idle)
  \/ \E with_msaa \in BOOLEAN : DeviceIdle /\ TextureShader_recreate(with_msaa)
  \/ DeviceIdle /\ TextureShader_destroy
  \/ DeviceIdle /\ ResourceManager_destroy
  \/ ShutdownLast /\ VkWindow_drop

MaatSpec == Init /\ [][MaatNext]_vars

\* ---------------------------------------------------------------------
\* MaatGraphics::run: the list of held keys (DeviceEvent::Key)
\* ---------------------------------------------------------------------
\* device_keys is followed up to MaxKeys entries
MaxKeys == 4
\* key.virtual_keycode
KeyCodes == {"W", "A", "S"}

\* the loop of the Released arm from index i (counted from 0) on: i is
\* incremented after every iteration, also after one that removed an entry
RECURSIVE release_loop(_, _, _)
release_loop(keys, key_code, i) ==
  IF i >= Len(keys) THEN keys
  ELSE IF keys[i + 1] = key_code
       THEN release_loop(RemoveAt(keys, i + 1), key_code, i + 1)
       ELSE release_loop(keys, key_code, i + 1)

\* the DeviceEvent::Key arm of the event loop of MaatGraphics::run
DeviceEvent_Key(state, virtual_keycode) ==
  /\ ~maat.crashed
  /\ IF ~is_some(virtual_keycode)
     THEN UNCHANGED maat
     ELSE IF state = "Pressed"
     THEN /\ Len(maat.device_keys) < MaxKeys
          /\ maat' = [maat EXCEPT !.device_keys = Append(@, virtual_keycode.val)]
     ELSE maat' = [maat EXCEPT !.device_keys =
                     release_loop(@, virtual_keycode.val, 0)]
  /\ UNCHANGED <<rm_vars, upload_vars, rawvk, shader, draws, vk>>

KeyNext ==
  \E state \in {"Pressed", "Released"},
     virtual_keycode \in {None} \cup {Some(k) : k \in KeyCodes} :
    DeviceEvent_Key(state, virtual_keycode)

KeySpec == Init /\ [][KeyNext]_vars

\* ---------------------------------------------------------------------
\* Camera: modes and the rotation about the x axis
\* ---------------------------------------------------------------------
\* rotations set by set_rotation, and changes of the rotation in degrees
RotationInputs == {0, 90, 121, 180, 270}
DeltaInputs == {-90, -1, 1, 90}
\* rotation_speed * delta_time, for the delta times of a frame
TurnInputs == {0, 1, 90}

\* Camera::set_fly_mode
set_fly_mode ==
  /\ ~maat.crashed
  /\ maat' = [maat EXCEPT !.camera.camera_type = "Fly",
                          !.camera.min_x_rotation = None,
                          !.camera.max_x_rotation = None]
  /\ UNCHANGED <<rm_vars, upload_vars, rawvk, shader, draws, vk>>

\* Camera::set_first_person_mode
set_first_person_mode ==
  /\ ~maat.crashed
  /\ maat' = [maat EXCEPT !.camera.camera_type = "FirstPerson",
                          !.camera.min_x_rotation = Some(FP_X_ROT_MIN),
                          !.camera.max_x_rotation = Some(FP_X_ROT_MAX)]
  /\ UNCHANGED <<rm_vars, upload_vars, rawvk, shader, draws, vk>>

\* Camera::set_third_person_mode
set_third_person_mode ==
  /\ ~maat.crashed
  /\ maat' = [maat EXCEPT !.camera.camera_type = "ThirdPerson",
                          !.camera.min_x_rotation = Some(TP_X_ROT_MIN),
                          !.camera.max_x_rotation = Some(TP_X_ROT_MAX)]
  /\ UNCHANGED <<rm_vars, upload_vars, rawvk, shader, draws, vk>>

\* Camera::invert_left_right: the factor rotate_by_degrees applies to delta.x
invert_left_right ==
  /\ ~maat.crashed
  /\ maat' = [maat EXCEPT !.camera.invert_y_rotation = -@]
  /\ UNCHANGED <<rm_vars, upload_vars, rawvk, shader, draws, vk>>

\* Camera::set_rotation
set_rotation(rot) ==
  /\ ~maat.crashed
  /\ maat' = [maat EXCEPT !.camera.rotation.x = rot]
  /\ UNCHANGED <<rm_vars, upload_vars, rawvk, shader, draws, vk>>

\* if self.rotation.x > max { = max }, then if self.rotation.x < min { = min }
clamp_x(x, min_x_rotation, max_x_rotation) ==
  LET upper == IF is_some(max_x_rotation) /\ x > max_x_rotation.val
               THEN max_x_rotation.val ELSE x
  IN IF is_some(min_x_rotation) /\ upper < min_x_rotation.val
     THEN min_x_rotation.val ELSE upper

\* Camera::rotate_by_degrees (the x component; it is the same in all modes)
rotate_by_degrees(delta) ==
  /\ ~maat.crashed
  /\ maat' = [maat EXCEPT
                !.camera.rotation.x =
                  clamp_x(@ + delta * maat.camera.invert_y_rotation,
                          maat.camera.min_x_rotation, maat.camera.max_x_rotation)]
  /\ maat'.camera.rotation.x \in -MaxRotation .. MaxRotation
  /\ UNCHANGED <<rm_vars, upload_vars, rawvk, shader, draws, vk>>

\* Camera::forward: a third person camera turns down, limited below only
forward(turn) ==
  /\ ~maat.crashed
  /\ IF maat.camera.camera_type = "ThirdPerson"
     THEN maat' = [maat EXCEPT
                     !.camera.rotation.x =
                       IF is_some(maat.camera.min_x_rotation)
                            /\ @ - turn <= maat.camera.min_x_rotation.val
                       THEN maat.camera.min_x_rotation.val ELSE @ - turn]
     ELSE UNCHANGED maat
  /\ maat'.camera.rotation.x \in -MaxRotation .. MaxRotation
  /\ UNCHANGED <<rm_vars, upload_vars, rawvk, shader, draws, vk>>

\* Camera::backward: a third person camera turns up, limited above only
backward(turn) ==
  /\ ~maat.crashed
  /\ IF maat.camera.camera_type = "ThirdPerson"
     THEN maat' = [maat EXCEPT
                     !.camera.rotation.x =
                       IF is_some(maat.camera.max_x_rotation)
                            /\ @ + turn >= maat.camera.max_x_rotation.val
                       THEN maat.camera.max_x_rotation.val ELSE @ + turn]
     ELSE UNCHANGED maat
  /\ maat'.camera.rotation.x \in -MaxRotation .. MaxRotation
  /\ UNCHANGED <<rm_vars, upload_vars, rawvk, shader, draws, vk>>

CameraNext ==
  \/ set_fly_mode
  \/ set_first_person_mode
  \/ set_third_person_mode
  \/ invert_left_right
  \/ \E rot \in RotationInputs : set_rotation(rot)
  \/ \E delta \in DeltaInputs : rotate_by_degrees(delta)
  \/ \E turn \in TurnInputs : forward(turn)
  \/ \E turn \in TurnInputs : backward(turn)

CameraSpec == Init /\ [][CameraNext]_vars

\* the positions of the calls of one function in the last draw
CallsOf(fn) == {k \in 1 .. Len(maat.calls) : maat.calls[k].fn = fn}

\* the calls of the last draw that begin or end a pass, record a draw or end the frame
FrameCalls ==
  {k \in 1 .. Len(maat.calls) :
     maat.calls[k].fn \notin {"model_handler.update_uniform_buffer", "vulkan.start_render"}}

\* C29: when start_render yields no image index MaatGraphics::draw skips the
\* frame: no render pass is begun, no draw recorded and end_render is not
\* called. When it yields index i the frame is: begin model pass(i), one draw
\* per entry of model_data in order, end pass, begin texture pass(i), one
\* draw or draw_text per entry of texture_data in order, end pass,
\* end_render(i), which is called exactly once and last.
C29_FrameShape ==
  LET calls == maat.calls
      models == maat.args.model_data
      textures == maat.args.texture_data
  IN maat.last_call = "draw" =>
       IF ~is_some(maat.args.present)
       THEN FrameCalls = {}
       ELSE \E bm, bt \in 1 .. Len(calls) :
              LET e1 == bm + Len(models) + 1
                  e2 == bt + Len(textures) + 1
              IN /\ bm > 1 /\ calls[bm - 1].fn = "vulkan.start_render"
                 /\ CallsOf("vulkan.begin_renderpass_model") = {bm}
                 /\ calls[bm].index = maat.args.present.val
                 /\ \A k \in 1 .. Len(models) :
                      /\ calls[bm + k].fn = "model_handler.draw"
                      /\ calls[bm + k].item.texture = models[k]
                 /\ bt = e1 + 1
                 /\ CallsOf("vulkan.begin_renderpass_texture") = {bt}
                 /\ calls[bt].index = maat.args.present.val
                 /\ \A k \in 1 .. Len(textures) :
                      /\ calls[bt + k].fn =
                           IF is_some(textures[k].some_text)
                           THEN "texture_handler.draw_text"
                           ELSE "texture_handler.draw"
                      /\ calls[bt + k].item = textures[k]
                 /\ CallsOf("vulkan.end_renderpass") = {e1, e2}
                 /\ CallsOf("vulkan.end_render") = {e2 + 1}
                 /\ Len(calls) = e2 + 1
                 /\ calls[e2 + 1].index = maat.args.present.val

\* a frame on image 1 with a model draw, a texture draw and a text draw
C29_Witness ==
  /\ maat.last_call = "draw"
  /\ maat.args.present = Some(1)
  /\ Len(maat.args.model_data) >= 1
  /\ \E j, k \in 1 .. Len(maat.args.texture_data) :
       /\ is_some(maat.args.texture_data[j].some_text)
       /\ ~is_some(maat.args.texture_data[k].some_text)
  /\ CallsOf("vulkan.end_render") # {}

\* a skipped frame: start_render returned None
C29_SkipWitness ==
  /\ maat.last_call = "draw"
  /\ ~is_some(maat.args.present)
  /\ Len(maat.args.texture_data) >= 1

\* every destroy call made so far, at shutdown or by the last recreate
AllDestroyCalls ==
  {maat.destroyed[k] : k \in 1 .. Len(maat.destroyed)}
    \cup {maat.recreated[k] : k \in 1 .. Len(maat.recreated)}

Rank(class) ==
  CASE class = "pipeline" -> 1
    [] class = "descriptor_set" -> 2
    [] class = "framebuffer" -> 3
    [] class = "render_pass" -> 4
    [] class \in {"image", "buffer"} -> 5
    [] class = "swapchain" -> 6
    [] class = "device" -> 7
    [] OTHER -> 0

\* C25: shutdown destroys strictly in the order pipelines, descriptor sets,
\* framebuffers, render pass, images and buffers, swapchain, device: no
\* object of a later class is destroyed before an object of an earlier class.
C25_Claim ==
  \A j, k \in 1 .. Len(maat.destroyed) :
    (/\ j < k
     /\ Rank(maat.destroyed[j].class) > 0
     /\ Rank(maat.destroyed[k].class) > 0)
    => Rank(maat.destroyed[j].class) <= Rank(maat.destroyed[k].class)

\* the ResourceManager with its destroy, called once by its owner when the
\* device is idle
DestroyNext ==
  \/ Next
  \/ DeviceIdle /\ ResourceManager_destroy

DestroySpec == Init /\ [][DestroyNext]_vars

\* the objects of the registry that hold a resident image
Resident == {i \in 1 .. Len(objects) :
               objects[i].loaded /\ is_some(objects[i].object_type.image)}

\* the positions in a log at which a handle of an image is released
Releases(log, object, handle) ==
  {k \in 1 .. Len(log) : log[k].object = object /\ log[k].handle = handle}

\* C26: Image::destroy releases the image view, then the image, then the
\* memory, and ResourceManager::destroy releases the handles of each resident
\* image exactly once: none released twice, no resident image skipped,
\* nothing else released.
C26_ReleasedOnceInOrder ==
  [][("ResourceManager" \notin maat.gone /\ "ResourceManager" \in maat'.gone) =>
       LET log == maat'.destroyed
       IN /\ Len(log) = 3 * Cardinality(Resident)
          /\ \A i \in Resident :
               LET h == objects[i].object_type.image.val.handle
               IN \E k \in 1 .. Len(log) :
                    /\ Releases(log, "image_view", h) = {k}
                    /\ Releases(log, "image", h) = {k + 1}
                    /\ Releases(log, "memory", h) = {k + 2}]_vars

\* the registry was destroyed when it held two resident images
C26_Witness ==
  /\ "ResourceManager" \in maat.gone
  /\ Len(maat.destroyed) = 6
  /\ maat.destroyed[1].handle # maat.destroyed[4].handle

\* ------------------------------------- Image, RenderPass (vulkan/)
\* a & b on unsigned integers
RECURSIVE BitAnd(_, _)
BitAnd(a, b) ==
  IF a = 0 \/ b = 0
  THEN 0
  ELSE (a % 2) * (b % 2) + 2 * BitAnd(a \div 2, b \div 2)

\* 1 << i
ShiftLeft(i) == 2 ^ i

\* a call of the graphics API: its result and the memory type it concerns
ApiCall(api, result, memory_type) ==
  [api |-> api, result |-> result, memory_type |-> memory_type]

\* check_errors(result): a failed call ends the program
check_errors(result) == result = "SUCCESS"

\* the loop of create_image that takes the first type whose bit is set,
\* whatever its properties
RECURSIVE memory_type_index_AnyProperties(_, _, _, _)
memory_type_index_AnyProperties(memory_requirements, memory_properties, i, index) ==
  IF i >= memory_properties.memoryTypeCount
  THEN index
  ELSE memory_type_index_AnyProperties(
         memory_requirements, memory_properties, i + 1,
         IF BitAnd(memory_requirements.memoryTypeBits, ShiftLeft(i)) # 0
         THEN i
         ELSE index)

\* for i in 0..memory_properties.memoryTypeCount { if .. { index = i } }
RECURSIVE memory_type_index(_, _, _, _)
memory_type_index(memory_requirements, memory_properties, i, index) ==
  IF i >= memory_properties.memoryTypeCount
  THEN index
  ELSE memory_type_index(
         memory_requirements, memory_properties, i + 1,
         IF /\ BitAnd(memory_requirements.memoryTypeBits, ShiftLeft(i)) # 0
            /\ BitAnd(memory_properties.memoryTypes[i],
                      MEMORY_PROPERTY_DEVICE_LOCAL_BIT)
                 = MEMORY_PROPERTY_DEVICE_LOCAL_BIT
         THEN i
         ELSE index)

\* Image::create_image; the results of CreateImage, AllocateMemory and
\* BindImageMemory, the requirements of the image and the memory types of the
\* physical device are what the driver answers
create_image(image_result, memory_requirements, memory_properties, allocate_result, bind_result) ==
  /\ vk.pc = "none"
  /\ ~vk.panicked
  /\ LET index == memory_type_index(memory_requirements, memory_properties, 0, -1)
         c1 == <<ApiCall("CreateImage", image_result, -1)>>
         c2 == c1 \o <<ApiCall("AllocateMemory", allocate_result, index)>>
         c3 == c2 \o <<ApiCall("BindImageMemory", bind_result, index)>>
     IN IF ~check_errors(image_result)
        THEN vk' = [vk EXCEPT !.calls = c1, !.panicked = TRUE]
        ELSE IF index = -1
        THEN \* panic!("Failed to find suitable memory type")
             vk' = [vk EXCEPT !.calls = c1,
                              !.memory_requirements = memory_requirements,
                              !.memory_properties = memory_properties,
                              !.panicked = TRUE]
        ELSE IF ~check_errors(allocate_result)
        THEN vk' = [vk EXCEPT !.calls = c2,
                              !.memory_requirements = memory_requirements,
                              !.memory_properties = memory_properties,
                              !.panicked = TRUE]
        ELSE IF ~check_errors(bind_result)
        THEN vk' = [vk EXCEPT !.calls = c3,
                              !.memory_requirements = memory_requirements,
                              !.memory_properties = memory_properties,
                              !.panicked = TRUE]
        ELSE vk' = [vk EXCEPT !.calls = c3,
                              !.memory_requirements = memory_requirements,
                              !.memory_properties = memory_properties,
                              !.pc = "created"]
  /\ UNCHANGED <<rm_vars, upload_vars, rawvk, shader, draws, maat>>

\* Image::device_local ends a single-time command buffer three times: in
\* both calls of transition_layout and after copy_buffer_to_image
SingleTimeCommands == 3

\* Image::end_single_time_command
end_single_time_command(submit_result, wait_result) ==
  /\ vk.pc = "created"
  /\ vk.submits < SingleTimeCommands
  /\ vk' = [vk EXCEPT
              !.calls = @ \o <<ApiCall("QueueSubmit", submit_result, -1),
                               ApiCall("QueueWaitIdle", wait_result, -1)>>,
              !.submits = @ + 1]
  /\ UNCHANGED <<rm_vars, upload_vars, rawvk, shader, draws, maat>>

\* Image::create_image_view, after which Image::device_local returns the Image
create_image_view(view_result) ==
  /\ vk.pc = "created"
  /\ vk.submits = SingleTimeCommands
  /\ vk' = [vk EXCEPT
              !.calls = @ \o <<ApiCall("CreateImageView", view_result, -1)>>,
              !.pc = "returned"]
  /\ UNCHANGED <<rm_vars, upload_vars, rawvk, shader, draws, maat>>

\* RenderPass::new: the RenderPass is returned whatever CreateRenderPass answers
RenderPass_new(render_pass_result) ==
  /\ vk.render_pass = "none"
  /\ ~vk.panicked
  /\ vk' = [vk EXCEPT !.render_pass = render_pass_result]
  /\ UNCHANGED <<rm_vars, upload_vars, rawvk, shader, draws, maat>>

MemoryRequirements == [memoryTypeBits : 0 .. 2 ^ MaxTypes - 1]
MemoryProperties ==
  [memoryTypeCount : 0 .. MaxTypes, memoryTypes : [TypeIndices -> PropertyFlags]]

ImageNext ==
  \/ /\ vk.pc = "none"
     /\ \E image_result, allocate_result, bind_result \in VkResults,
           memory_requirements \in MemoryRequirements,
           memory_properties \in MemoryProperties :
          create_image(image_result, memory_requirements, memory_properties,
                       allocate_result, bind_result)
  \/ \E submit_result, wait_result \in VkResults :
       end_single_time_command(submit_result, wait_result)
  \/ \E view_result \in VkResults : create_image_view(view_result)
  \/ \E render_pass_result \in VkResults : RenderPass_new(render_pass_result)

ImageSpec == Init /\ [][ImageNext]_vars

\* the positions of the calls that failed
FailedCalls == {k \in 1 .. Len(vk.calls) : vk.calls[k].result = "ERROR"}

\* C28: the result of every call of the API that can fail (CreateImage,
\* AllocateMemory, BindImageMemory, CreateImageView, QueueSubmit,
\* QueueWaitIdle, CreateRenderPass) is checked right after the call: after a
\* failed call nothing more is called and no object is returned.
C28_Claim ==
  /\ \A k \in FailedCalls : k = Len(vk.calls) /\ vk.panicked
  /\ vk.render_pass # "ERROR"

\* the part of C28 that holds: a failure of CreateImage, AllocateMemory or
\* BindImageMemory ends the program at that call
C28_CreateImageChecked ==
  \A k \in FailedCalls :
    vk.calls[k].api \in {"CreateImage", "AllocateMemory", "BindImageMemory"}
      => k = Len(vk.calls) /\ vk.panicked

\* the memory types the image can be bound to: among the memoryTypeCount
\* types, those named by memoryTypeBits that are DEVICE_LOCAL
Suitable ==
  {i \in TypeIndices :
     /\ i < vk.memory_properties.memoryTypeCount
     /\ (vk.memory_requirements.memoryTypeBits \div (2 ^ i)) % 2 = 1
     /\ vk.memory_properties.memoryTypes[i] % 2 = 1}

\* the calls that allocate or bind memory
MemoryCalls ==
  {k \in 1 .. Len(vk.calls) : vk.calls[k].api \in {"AllocateMemory", "BindImageMemory"}}

\* C30: create_image allocates and binds memory only of a type i whose bit is
\* set in memoryTypeBits and that is DEVICE_LOCAL; when none of the
\* memoryTypeCount types is one, it aborts before memory is allocated or bound.
C30_SuitableMemoryType ==
  /\ \A k \in MemoryCalls : vk.calls[k].memory_type \in Suitable
  /\ (vk.calls # <<>> /\ vk.calls[1].result = "SUCCESS" /\ Suitable = {})
       => vk.panicked /\ MemoryCalls = {}

\* memory was bound although a type named by memoryTypeBits is not DEVICE_LOCAL
\* and another type that is DEVICE_LOCAL is not named
C30_Witness ==
  /\ vk.pc = "created"
  /\ \E k \in MemoryCalls : vk.calls[k].api = "BindImageMemory"
  /\ \E i \in TypeIndices :
       /\ i \notin Suitable
       /\ (vk.memory_requirements.memoryTypeBits \div (2 ^ i)) % 2 = 1
       /\ i < vk.memory_properties.memoryTypeCount

\* create_image aborted because no type was suitable
C30_AbortWitness ==
  /\ vk.panicked
  /\ Len(vk.calls) = 1
  /\ vk.calls[1].result = "SUCCESS"
  /\ vk.memory_requirements.memoryTypeBits # 0
  /\ vk.memory_properties.memoryTypeCount = MaxTypes

\* ---------------------------------------------------------------------
\* ResourceManager: the in-flight counter and the slot vector
\* ---------------------------------------------------------------------

\* every index waiting in the channel addresses a slot of the slot vector
\* that holds a payload behind a mutex that is not poisoned
ChannelIndicesValid ==
  \A k \in 1..Len(rx) :
    /\ rx[k] < Len(data)
    /\ is_some(slot[data[rx[k] + 1]].val)
    /\ ~slot[data[rx[k] + 1]].poisoned

\* the counter is the number of tasks in flight
C31_CounterInv ==
  /\ num_recv_objects >= 0
  /\ num_recv_objects = Cardinality(InFlight)
  /\ ChannelIndicesValid

\* the slot vector is emptied only with nothing in flight, and neither the
\* index access nor lock().unwrap() / take().unwrap() of the loop fails
C31_CounterStep ==
  /\ (data # <<>> /\ data' = <<>>) => InFlight = {}
  /\ render.pc \in {"recv", "lock"} => render'.pc # "crashed"

\* C31: num_recv_objects is never negative and equals the number of
\* dispatched decode tasks not yet promoted; the slot vector is cleared only
\* when that number is zero; every index received from the channel is within
\* the slot vector and its slot holds a payload, so the index access and
\* take().unwrap() of recieve_objects never fail
C31_CounterMatchesInFlight == []C31_CounterInv /\ [][C31_CounterStep]_vars

\* of two dispatched tasks one has been promoted and the index of the other
\* waits in the channel
C31_Witness ==
  /\ Cardinality(Dispatched) = 2
  /\ num_recv_objects = 1
  /\ Len(rx) = 1
  /\ \E t \in Dispatched : Promoted(t)

\* the slot vector has been emptied after everything was promoted
C31_ClearWitness ==
  /\ Dispatched # {}
  /\ \A t \in Dispatched : Promoted(t)
  /\ data = <<>>

\* a decoded payload waits in the slot of some dispatched task
PayloadWaiting == \E t \in Dispatched : is_some(slot[t].val)

\* C32: pending_objects_loaded() returns true only in states where no decode
\* task is in flight and no decoded payload waits in a slot to be promoted
C32_LoadedMeansNothingPending ==
  pending_objects_loaded => InFlight = {} /\ ~PayloadWaiting

\* pending_objects_loaded() is true again after a texture was loaded in the
\* background and promoted
C32_Witness ==
  /\ pending_objects_loaded
  /\ \E t \in Dispatched : Promoted(t)
  /\ render.pc = "idle"

\* no decode task has failed, and the render thread is alive to poll
DecodesComplete ==
  /\ \A t \in TaskIds : pool[t].pc # "panicked"
  /\ ~Crashed

\* pending_objects_loaded() turns false only by a dispatch of load_texture
C33_FalseOnlyByLoad ==
  (pending_objects_loaded /\ ~pending_objects_loaded')
    => Cardinality(Dispatched') = Cardinality(Dispatched) + 1

\* C33: if every dispatched decode completes and the render thread keeps
\* calling recieve_objects, then once no further load_texture is called
\* pending_objects_loaded() eventually returns true, and it stays true until
\* the next load_texture
C33_EventuallyLoaded ==
  /\ []DecodesComplete => <>[]pending_objects_loaded
  /\ [][C33_FalseOnlyByLoad]_vars

\* both textures were loaded in the background, no decode failed, and
\* pending_objects_loaded() is true
C33_Witness ==
  /\ Cardinality(Dispatched) = MaxTasks
  /\ \A t \in Dispatched : pool[t].pc = "done" /\ Promoted(t)
  /\ ~Crashed
  /\ pending_objects_loaded

\* ---------------------------------------------------------------------
\* the registry without the objects of a reference, the others in order
Keep(o, reference) == o.reference # reference
Without(objs, reference) == SelectSeq(objs, LAMBDA o : Keep(o, reference))

\* C40: _remove_object(reference) completes without fault for every registry
\* content, afterwards the registry holds no object with that reference, and
\* all other objects are kept in their original relative order
C40_Claim ==
  [][\A r \in Refs :
       _remove_object(r) => ~Crashed' /\ objects' = Without(objects, r)]_vars

\* what holds of _remove_object: when it returns, it has removed the objects
\* of the reference and kept the others in order
C40_WhenItReturns ==
  [][\A r \in Refs :
       (_remove_object(r) /\ ~Crashed') => objects' = Without(objects, r)]_vars

\* ---------------------------------------------------------------------
\* TextureShader: instanced draws and the capacity of their buffer
\* ---------------------------------------------------------------------

\* the instances accumulated for a buffer (0 for a buffer not added)
Accumulated(b) ==
  IF is_some(draws.instanced_cpu_buffers[b])
  THEN draws.instanced_cpu_buffers[b].val.data ELSE 0

\* C35: the number of instances accumulated by add_instanced_draw for one
\* buffer between two draw_instanced calls, and with it the data that
\* draw_instanced writes into the slot and the instance count it draws, never
\* exceeds the MAX_INSTANCES capacity the buffer was allocated with
C35_Claim ==
  /\ \A b \in InstanceRefs : Accumulated(b) <= MAX_INSTANCES
  /\ \A k \in 1 .. Len(draws.cmd) : draws.cmd[k].instances <= MAX_INSTANCES

\* the step has recorded one instanced draw of the n instances accumulated
\* for buffer b and emptied the accumulator
RecordsOnce(b, n) ==
  /\ ~draws'.crashed
  /\ Len(draws'.cmd) = Len(draws.cmd) + 1
  /\ SubSeq(draws'.cmd, 1, Len(draws.cmd)) = draws.cmd
  /\ LET c == draws'.cmd[Len(draws'.cmd)]
     IN /\ c.op = "draw_instanced_indexed"
        /\ c.buffer = b
        /\ c.instances = n
  /\ draws'.instanced_cpu_buffers[b].val.data = 0

\* C36: draw_instanced on a known buffer with n >= 1 accumulated instances
\* records one instanced draw of exactly n instances and empties the
\* accumulator, so that a following draw_instanced without new additions
\* records nothing; with no accumulated instances or an unknown buffer
\* reference the command buffer is returned unchanged
C36_Claim ==
  [][\A b \in InstanceRefs, t \in TextureRefs :
       draw_instanced(b, t) =>
         IF Accumulated(b) >= 1
         THEN RecordsOnce(b, Accumulated(b))
         ELSE draws'.cmd = draws.cmd /\ ~draws'.crashed]_vars

\* what holds of draw_instanced: the same, when the texture reference is one
\* that has a descriptor set
C36_DrawnOnce ==
  [][\A b \in InstanceRefs, t \in TextureRefs :
       (draw_instanced(b, t) /\ instanced_descriptor_sets_contains_key(t)) =>
         IF Accumulated(b) >= 1
         THEN RecordsOnce(b, Accumulated(b))
         ELSE draws'.cmd = draws.cmd /\ ~draws'.crashed]_vars

\* as many instances as the buffer holds were drawn by one recorded
\* instanced draw and the accumulator is empty
C36_DrawnWitness ==
  /\ Len(draws.cmd) = 1
  /\ draws.cmd[1].op = "draw_instanced_indexed"
  /\ draws.cmd[1].instances = MAX_INSTANCES
  /\ Accumulated("sprites") = 0

\* ---------------------------------------------------------------------
\* RawVk::draw and the framebuffer list
\* ---------------------------------------------------------------------

\* C34: RawVk::draw never dereferences a missing or too-short framebuffer
\* list: whenever draw reaches begin_render_pass (the acquire succeeded),
\* framebuffers is present and the acquired image index is smaller than its
\* length, for every order of init, screen_resized, pre_draw and draw calls,
\* also after a pre_draw whose recreation failed with UnsupportedDimensions
C34_Claim ==
  [][\A image_num \in 0 .. MaxImages - 1 :
       draw("Ok", image_num) =>
         /\ is_some(rawvk.framebuffers)
         /\ image_num < rawvk.framebuffers.val.count]_vars

\* the same for the draw calls that directly follow a pre_draw call
C34_AfterPreDraw ==
  [][\A image_num \in 0 .. MaxImages - 1 :
       (draw("Ok", image_num) /\ rawvk.last_call = "pre_draw") =>
         /\ is_some(rawvk.framebuffers)
         /\ image_num < rawvk.framebuffers.val.count]_vars

\* what holds: a framebuffer list that is present has one framebuffer per
\* swapchain image, so every image index is within it; and after a pre_draw
\* that did not return early the list is present
C34_ListMatchesImages ==
  /\ is_some(rawvk.framebuffers) => rawvk.framebuffers.val.count = rawvk.images
  /\ (rawvk.last_call = "pre_draw" /\ ~rawvk.crashed
        /\ rawvk.pre_draw_result # "unsupported")
       => is_some(rawvk.framebuffers)

\* ---------------------------------------------------------------------
\* C37: is_ready() is true only in states where no texture path and no
\* model path is still pending (texture_paths and model_paths are both
\* empty), after any sequence of add_texture, add_model, add_font and
\* dynamic_load calls
C37_Claim ==
  is_ready => PendingTextures = {} /\ PendingModels = {}

\* what holds: ready is set only by a dynamic_load call that found nothing
\* pending, and it is never reset
C37_SetWhenNothingPending ==
  [][/\ (~is_ready /\ is_ready') =>
          /\ PendingTextures = {} /\ PendingModels = {}
          /\ rawvk'.last_call = "dynamic_load"
     /\ is_ready => is_ready']_vars

\* everything added was loaded and a further dynamic_load has set ready
C37_ReadyWitness ==
  /\ is_ready
  /\ ~rawvk.crashed
  /\ Work("texture", 0, "brick") \in rawvk.submitted
  /\ Work("model", 0, "brick") \in rawvk.submitted

\* ---------------------------------------------------------------------
\* the keys in the list of held keys
HeldKeys(keys) == {keys[i] : i \in 1 .. Len(keys)}

\* C38: after a device Key event with state Released for key k has been
\* handled, device_keys contains no occurrence of k, whatever Pressed and
\* Released events came before (also repeated Pressed events for k without
\* a Release in between)
C38_Claim ==
  [][\A k \in KeyCodes :
       DeviceEvent_Key("Released", Some(k)) => k \notin HeldKeys(maat'.device_keys)]_vars

\* what holds: Released for k removes k when no two occurrences of k are
\* next to each other in the list, and it keeps the other keys in order
C38_ReleasedUnlessAdjacent ==
  [][\A k \in KeyCodes :
       DeviceEvent_Key("Released", Some(k)) =>
         /\ SelectSeq(maat'.device_keys, LAMBDA h : h # k)
              = SelectSeq(maat.device_keys, LAMBDA h : h # k)
         /\ (\A i \in 1 .. Len(maat.device_keys) - 1 :
               ~(maat.device_keys[i] = k /\ maat.device_keys[i + 1] = k))
              => k \notin HeldKeys(maat'.device_keys)]_vars

\* ---------------------------------------------------------------------
\* rotation.x lies within the limits of the mode the camera is in
WithinModeRange(cam) ==
  /\ cam.camera_type = "FirstPerson" =>
       cam.rotation.x \in FP_X_ROT_MIN .. FP_X_ROT_MAX
  /\ cam.camera_type = "ThirdPerson" =>
       cam.rotation.x \in TP_X_ROT_MIN .. TP_X_ROT_MAX

\* C39: whenever the camera is in FirstPerson or ThirdPerson mode,
\* rotation.x lies within that mode's [min_x_rotation, max_x_rotation] range
\* (91..269 resp. 89..189) after every operation - set_first_person_mode,
\* set_third_person_mode, set_rotation, rotate_by_degrees, forward and
\* backward - whatever the rotation was before the mode was entered
C39_Claim == WithinModeRange(maat.camera)

\* what holds: rotate_by_degrees leaves rotation.x within the limits of the
\* mode, and forward and backward keep it within them once it is
C39_ClampedByRotate ==
  [][/\ (\E delta \in DeltaInputs : rotate_by_degrees(delta))
          => WithinModeRange(maat'.camera)
     /\ ((\E turn \in TurnInputs : forward(turn) \/ backward(turn))
           /\ WithinModeRange(maat.camera))
          => WithinModeRange(maat'.camera)]_vars

====
